---- MODULE Spec2Model ----
(***************************************************************************)
(* Fire-spread simulation of cpp-fireSim (src/fireSimulator/simulation.h   *)
(* and worldClasses.h): the FireSpreadSimulation state machine over a      *)
(* World whose fire state lives in per-tile vector parameters.             *)
(*                                                                         *)
(* Floating point.  The source computes probabilities in IEEE binary       *)
(* floating point (float, with double intermediates).  The model keeps the *)
(* format (binary, normalised mantissa, round to nearest even, unbounded   *)
(* exponent) and shortens the mantissa to MantBits bits; every operation   *)
(* rounds its result to that format.  A value is <<m, e>> = m * 2^e with   *)
(* m = 0 or 2^(MantBits-1) <= m < 2^MantBits.                              *)
(***************************************************************************)
EXTENDS Integers, Sequences, FiniteSets, TLC

\* ------------------------------------------------------------------ bounds
MantBits == 8
MaxTime == 5
MaxStart == 2

Range(seq) == {seq[k] : k \in 1..Len(seq)}
IsDuplicateFree(seq) == \A j, k \in 1..Len(seq) : j # k => seq[j] # seq[k]

\* ---------------------------------------------------------- float helpers
BitLen(n) == CHOOSE k \in 0..30 : n < 2^k /\ (k = 0 \/ n >= 2^(k - 1))

\* n * 2^e rounded to MantBits bits, ties to even
Fl(n, e) ==
    IF n = 0 THEN <<0, 0>>
    ELSE LET k == BitLen(n) IN
         IF k <= MantBits THEN <<n * 2^(MantBits - k), e - (MantBits - k)>>
         ELSE LET sh == k - MantBits
                  q == n \div 2^sh
                  r == n % 2^sh
                  half == 2^(sh - 1)
                  q2 == IF r > half \/ (r = half /\ q % 2 = 1) THEN q + 1 ELSE q
              IN IF q2 = 2^MantBits THEN <<2^(MantBits - 1), e + sh + 1>>
                 ELSE <<q2, e + sh>>

FZero == <<0, 0>>
FOne == Fl(1, 0)
Float == Nat \X Int

FLess(a, b) ==
    IF b[1] = 0 THEN FALSE
    ELSE IF a[1] = 0 THEN TRUE
    ELSE IF a[2] # b[2] THEN a[2] < b[2]
    ELSE a[1] < b[1]

FLeq(a, b) == ~FLess(b, a)

FMul(a, b) == Fl(a[1] * b[1], a[2] + b[2])

FAdd(a, b) ==
    IF a[1] = 0 THEN b
    ELSE IF b[1] = 0 THEN a
    ELSE LET hi == IF a[2] >= b[2] THEN a ELSE b
             lo == IF a[2] >= b[2] THEN b ELSE a
             d == hi[2] - lo[2]
         IN IF d > MantBits + 2 THEN hi
            ELSE Fl(hi[1] * 2^d + lo[1], lo[2])

\* a - b for a >= b >= 0
FSub(a, b) ==
    IF b[1] = 0 THEN a
    ELSE LET d == a[2] - b[2]
         IN IF d > MantBits + 2 THEN a
            ELSE Fl(a[1] * 2^d - b[1], b[2])

\* a / b for b > 0; the last bit of the quotient is sticky
FDiv(a, b) ==
    IF a[1] = 0 THEN FZero
    ELSE LET num == a[1] * 2^(MantBits + 2)
             q == num \div b[1]
             st == IF num % b[1] = 0 THEN 0 ELSE 1
         IN Fl(2 * q + st, a[2] - b[2] - MantBits - 3)

FHalf(a) == IF a[1] = 0 THEN a ELSE <<a[1], a[2] - 1>>

FMin(a, b) == IF FLess(b, a) THEN b ELSE a

\* the decimal literal n/d of the source, rounded to the format
Dec(n, d) == FDiv(Fl(n, 0), Fl(d, 0))

\* std::pow(base, n) for a step count n in 0..5
FPow(base, n) ==
    IF n = 0 THEN FOne
    ELSE IF n = 1 THEN base
    ELSE IF n = 2 THEN FMul(base, base)
    ELSE IF n = 3 THEN FMul(base, FMul(base, base))
    ELSE IF n = 4 THEN FMul(base, FMul(base, FMul(base, base)))
    ELSE FMul(base, FMul(base, FMul(base, FMul(base, base))))

\* --------------------------------------------- Simulation::GetStepProbability
Iterations == 100

\* calcTotalProbability > totalProbability.  For a negative step count
\* std::pow(1 - p, steps) is 1 / (1 - p)^-steps, at least 1 (infinity at
\* p = 1), so calcTotalProbability is zero or negative and the test fails.
CalcExceedsTotal(p, total, steps) ==
    IF steps < 0 THEN FALSE
    ELSE FLess(total, FDiv(FMul(p, FSub(FOne, FPow(FSub(FOne, p), steps))), p))

\* a variant of the loop body that moves the bounds the other way
BisectStepReversed(b, total, steps) ==
    LET p == FHalf(FAdd(b[1], b[2]))
    IN IF CalcExceedsTotal(p, total, steps) THEN <<p, b[2]>> ELSE <<b[1], p>>

\* one pass of the loop body: b = <<lowerBound, upperBound>>
BisectStep(b, total, steps) ==
    LET p == FHalf(FAdd(b[1], b[2]))
    IN IF CalcExceedsTotal(p, total, steps) THEN <<b[1], p>> ELSE <<p, b[2]>>

\* the for loop, i = 0 .. Iterations-1
Bisection[i \in 0..Iterations, b \in Float \X Float, total \in Float, steps \in Int] ==
    IF i = Iterations THEN b
    ELSE Bisection[i + 1, BisectStep(b, total, steps), total, steps]

GetStepProbability(total, steps) ==
    LET b == Bisection[0, <<FZero, FOne>>, total, steps]
    IN FHalf(FAdd(b[1], b[2]))

\* ------------------------------------------------------------------ World
VegetationType == {"Grass", "Sparse", "Forest", "Swamp"}

\* a square world: side, and per tile <<x, y>> its height, moisture, vegetation
MakeWorld(n, hs, ms, vs) ==
    [side |-> n,
     height |-> [t \in (0..n-1) \X (0..n-1) |-> hs[t[1] * n + t[2] + 1]],
     moisture |-> [t \in (0..n-1) \X (0..n-1) |-> ms[t[1] * n + t[2] + 1]],
     vegetation |-> [t \in (0..n-1) \X (0..n-1) |-> vs[t[1] * n + t[2] + 1]]]

\* 2x2, all grass, dry, flat
GrassWorld ==
    MakeWorld(2, <<0, 0, 0, 0>>, <<0, 0, 0, 0>>,
              <<"Grass", "Grass", "Grass", "Grass">>)

\* 2x2, mixed heights and moistures; (1,0) is water (moisture 100)
MixedWorld ==
    MakeWorld(2, <<1, 2, 0, 1>>, <<20, 70, 100, 90>>,
              <<"Grass", "Sparse", "Grass", "Grass">>)

\* 1x1 worlds: a forest tile, and a swamp tile that is water
ForestWorld == MakeWorld(1, <<1>>, <<20>>, <<"Forest">>)
SwampWorld == MakeWorld(1, <<0>>, <<100>>, <<"Swamp">>)

Worlds == {GrassWorld, MixedWorld, ForestWorld, SwampWorld}

\* 3x3, all grass, dry, flat
Grass3World ==
    MakeWorld(3, <<0, 0, 0, 0, 0, 0, 0, 0, 0>>, <<0, 0, 0, 0, 0, 0, 0, 0, 0>>,
              <<"Grass", "Grass", "Grass", "Grass", "Grass", "Grass", "Grass", "Grass", "Grass">>)

\* 2x2, every vegetation, mixed heights and moistures, no water
DryMixedWorld ==
    MakeWorld(2, <<1, 2, 0, 1>>, <<20, 70, 50, 90>>,
              <<"Grass", "Sparse", "Forest", "Swamp">>)

\* the worlds without a tile of moisture 100
DryWorlds == {GrassWorld, Grass3World, DryMixedWorld, ForestWorld}

\* 3x3, flat grass, dry on the diagonal (0,0), (1,1), (2,2) and water elsewhere
DiagonalWorld ==
    MakeWorld(3, <<0, 0, 0, 0, 0, 0, 0, 0, 0>>, <<0, 100, 100, 100, 0, 100, 100, 100, 0>>,
              <<"Grass", "Grass", "Grass", "Grass", "Grass", "Grass", "Grass", "Grass", "Grass">>)

AllWorlds == Worlds \cup DryWorlds \cup {DiagonalWorld}

GetWidth(w) == w.side
GetDepth(w) == w.side
Tiles(w) == (0..GetWidth(w) - 1) \X (0..GetDepth(w) - 1)
TotalTiles(w) == GetWidth(w) * GetDepth(w)

\* a variant that flattens a position to x + y
GetTileIndexSum(w, tile) == tile[1] + tile[2]

GetTileIndex(w, tile) == tile[1] * GetDepth(w) + tile[2]

\* the grid in row order, as the nested loops over world_.grid visit it
GridOrder(w) == [k \in 1..TotalTiles(w) |-> <<(k - 1) \div GetDepth(w), (k - 1) % GetDepth(w)>>]

\* the (i, j) offsets in loop order, i outer, j inner
Offsets(distance) ==
    [k \in 1..(2 * distance + 1) * (2 * distance + 1) |->
        <<((k - 1) \div (2 * distance + 1)) - distance,
          ((k - 1) % (2 * distance + 1)) - distance>>]

\* a variant that keeps only the tiles sharing an edge with the tile
GetNeighborTilesByEdge(w, tile, distance) ==
    LET InGrid(o) == /\ (o[1] = 0 \/ o[2] = 0)
                     /\ (tile[1] + o[1] # tile[1] \/ tile[2] + o[2] # tile[2])
                     /\ tile[1] + o[1] >= 0 /\ tile[1] + o[1] < GetWidth(w)
                     /\ tile[2] + o[2] >= 0 /\ tile[2] + o[2] < GetDepth(w)
        kept == SelectSeq(Offsets(distance), InGrid)
    IN [k \in 1..Len(kept) |-> <<tile[1] + kept[k][1], tile[2] + kept[k][2]>>]

GetNeighborTiles(w, tile, distance) ==
    LET InGrid(o) == /\ (tile[1] + o[1] # tile[1] \/ tile[2] + o[2] # tile[2])
                     /\ tile[1] + o[1] >= 0 /\ tile[1] + o[1] < GetWidth(w)
                     /\ tile[2] + o[2] >= 0 /\ tile[2] + o[2] < GetDepth(w)
        kept == SelectSeq(Offsets(distance), InGrid)
    IN [k \in 1..Len(kept) |-> <<tile[1] + kept[k][1], tile[2] + kept[k][2]>>]

\* ------------------------------------------- TypedParameter, wind parameters
\* TypedParameter<T>::SetValue / TypedVectorParameter<T>::SetValue: the clamp
Clamp(minValue, maxValue, v) ==
    LET m == IF maxValue < v THEN maxValue ELSE v
    IN IF minValue > m THEN minValue ELSE m

\* the same clamp on bool, where false < true
ClampBool(minValue, maxValue, v) == minValue \/ (maxValue /\ v)

WindSpeedInitial == 5
WindSpeedMin == 0
WindSpeedMax == 50
WindDirectionInitial == 0
WindDirectionMin == 0
WindDirectionMax == 360
BurningForMax == 5
BurnTimeInitial == 5
BurnTimeMax == 5

\* values a caller hands to SetValue of windSpeed / windDirection
WindSpeedInputs == {60}
WindDirectionInputs == {180}

WindSpeeds == {WindSpeedInitial} \cup {Clamp(WindSpeedMin, WindSpeedMax, v) : v \in WindSpeedInputs}
WindDirections ==
    {WindDirectionInitial} \cup {Clamp(WindDirectionMin, WindDirectionMax, v) : v \in WindDirectionInputs}

\* --------------------------------------------------- ignition probability
GetVegetationFactor(vegetation, spreadFactor) ==
    LET factor == CASE vegetation = "Grass" -> Dec(18, 100)
                    [] vegetation = "Forest" -> Dec(4, 10)
                    [] vegetation = "Sparse" -> Dec(25, 100)
                    [] vegetation = "Swamp" -> Dec(22, 100)
                    [] OTHER -> FOne
    IN FMul(factor, spreadFactor)

GetMoistureFactor(moisture, spreadFactor) ==
    IF moisture = 100 THEN FZero
    ELSE IF moisture > 85 THEN Dec(5, 10)
    ELSE IF moisture > 65 THEN Dec(7, 10)
    ELSE Dec(88, 100)

\* atan2(deltaY, deltaX) in degrees, normalised to 0..359, for a neighbour offset
AngleToTarget(deltaX, deltaY) ==
    CASE deltaX = 1 /\ deltaY = 0 -> 0
      [] deltaX = 1 /\ deltaY = 1 -> 45
      [] deltaX = 0 /\ deltaY = 1 -> 90
      [] deltaX = -1 /\ deltaY = 1 -> 135
      [] deltaX = -1 /\ deltaY = 0 -> 180
      [] deltaX = -1 /\ deltaY = -1 -> 225
      [] deltaX = 0 /\ deltaY = -1 -> 270
      [] deltaX = 1 /\ deltaY = -1 -> 315

\* directionDifference of GetWindFactor
DirectionDifference(wd, source, target) ==
    LET angleToTarget == AngleToTarget(target[1] - source[1], target[2] - source[2])
        fabs == IF wd - angleToTarget < 0 THEN angleToTarget - wd ELSE wd - angleToTarget
    IN IF fabs > 180 THEN 360 - fabs ELSE fabs

\* a variant that leaves a difference above 180 as it is
GetWindFactorUnfolded(ws, wd, source, target, spreadFactor) ==
    LET angleToTarget == AngleToTarget(target[1] - source[1], target[2] - source[2])
        directionDifference ==
            IF wd - angleToTarget < 0 THEN angleToTarget - wd ELSE wd - angleToTarget
        windEffect == IF directionDifference <= 45
                        THEN FAdd(FOne, FMul(Fl(ws, 0), Dec(3, 100)))
                      ELSE IF directionDifference <= 90
                        THEN FAdd(FOne, FMul(Fl(ws, 0), Dec(15, 1000)))
                      ELSE FOne
    IN FMul(FMin(windEffect, Dec(15, 10)), spreadFactor)

GetWindFactor(ws, wd, source, target, spreadFactor) ==
    LET directionDifference == DirectionDifference(wd, source, target)
        windEffect == IF directionDifference <= 45
                        THEN FAdd(FOne, FMul(Fl(ws, 0), Dec(3, 100)))
                      ELSE IF directionDifference <= 90
                        THEN FAdd(FOne, FMul(Fl(ws, 0), Dec(15, 1000)))
                      ELSE FOne
    IN FMul(FMin(windEffect, Dec(15, 10)), spreadFactor)

\* a variant that takes equal heights for a downward slope
GetSlopeFactorStrict(w, source, target, spreadFactor) ==
    IF w.height[target] - w.height[source] > 0
      THEN FMul(Dec(35, 100), spreadFactor)
      ELSE FMul(Dec(25, 100), spreadFactor)

GetSlopeFactor(w, source, target, spreadFactor) ==
    IF w.height[target] - w.height[source] >= 0
      THEN FMul(Dec(35, 100), spreadFactor)
      ELSE FMul(Dec(25, 100), spreadFactor)

\* adjustedProbability of CalculateFireSpreadProbability
AdjustedProbability(w, ws, wd, source, target) ==
    LET vegetationFactor == GetVegetationFactor(w.vegetation[target], FOne)
        moistureFactor == GetMoistureFactor(w.moisture[target], FOne)
        windFactor == GetWindFactor(ws, wd, source, target, FOne)
        slopeFactor == GetSlopeFactor(w, source, target, FOne)
        combined == FHalf(FAdd(vegetationFactor, slopeFactor))
    IN FMul(FMul(combined, moistureFactor), windFactor)

\* burnTime by vegetation, the switch of InitWorldParameters
BurnTimeOf(vegetation) ==
    CASE vegetation = "Grass" -> 1
      [] vegetation = "Sparse" -> 2
      [] vegetation = "Swamp" -> 3
      [] vegetation = "Forest" -> 4
      [] OTHER -> BurnTimeInitial

\* GetStepProbability tabulated on the arguments the simulation can pass it
AdjustedValues ==
    UNION {{AdjustedProbability(w, ws, wd, pr[1], pr[2]) :
              ws \in WindSpeeds, wd \in WindDirections,
              pr \in {q \in Tiles(w) \X Tiles(w) : q[2] \in Range(GetNeighborTiles(w, q[1], 1))}} :
           w \in AllWorlds}
StepValues == {BurnTimeOf(v) : v \in VegetationType}
StepProbabilityTable == [a \in AdjustedValues, n \in StepValues |-> GetStepProbability(a, n)]

\* draws of Random::Range(0.0f, 1.0f): 0, 1/64, 1/4, 1/2
Samples == {FZero, Fl(1, -6), Fl(1, -2), Fl(1, -1)}

\* ------------------------------------------------------------------ state
VARIABLES
    world,            \* world_: the terrain, fixed once generated
    windSpeed,        \* world parameter "windSpeed" (whole numbers here)
    windDirection,    \* world parameter "windDirection"
    isBurning,        \* vector parameter "isBurning", by tile index
    hasBurned,        \* vector parameter "hasBurned"
    burningFor,       \* vector parameter "burningFor"
    burnTime,         \* vector parameter "burnTime"
    currentTime,      \* currentTime_
    burningTiles,     \* burningTiles_
    prohibitedTiles,  \* prohibitedTiles_
    changesOverTime   \* changesOverTime_: time step -> tiles changed at it

vars == <<world, windSpeed, windDirection, isBurning, hasBurned, burningFor, burnTime,
          currentTime, burningTiles, prohibitedTiles, changesOverTime>>

\* state of the components that are also run on their own
VARIABLES
    lakeMap,          \* MoistureMapGenerator::lakeMap
    riverMap,         \* MoistureMapGenerator::riverMap
    noiseField,       \* perlin(...) at each cell, in thousandths
    moistureMap,      \* moistureMap of MoistureMapGenerator::Generate
    scanned           \* number of cells the scan of Generate has visited

generatorVars == <<lakeMap, riverMap, noiseField, moistureMap, scanned>>

VARIABLES
    singleParameters, \* ParameterContainer::singleParameters_
    vectorParameters, \* ParameterContainer::vectorParameters_
    lookup            \* what the last GetParameter / GetVectorParameter returned

containerVars == <<singleParameters, vectorParameters, lookup>>

VARIABLES
    grid,             \* World::grid, the Tile* of every cell (0 is nullptr)
    allocated,        \* number of Tile objects made with new so far
    deleted,          \* the Tile objects delete has been applied to
    result            \* outcome of the last GetTileAt / SetTileAt call

gridVars == <<grid, allocated, deleted, result>>

VARIABLES
    floatMap,         \* a Map<float>: width, depth and data
    normalized        \* number of Normalize calls made on it

normalizeVars == <<floatMap, normalized>>

VARIABLES
    totalProbability, \* argument of a call of Simulation::GetStepProbability
    updateSteps,      \* argument of the call
    returned          \* the values the call has returned: none, or one

probabilityVars == <<totalProbability, updateSteps, returned>>

VARIABLES
    tileParameters,   \* the parameters each Tile of the grid holds itself
    perTileTime,      \* currentTime_
    perTileBurning,   \* burningTiles_
    perTileChanges,   \* changesOverTime_
    perTileOutcome    \* whether the program still runs

perTileVars == <<tileParameters, perTileTime, perTileBurning, perTileChanges, perTileOutcome>>

VARIABLES
    pattern,          \* the values Random::Range returns, in order, repeating
    first,            \* one simulation: its fire state, lists and clock
    second            \* another simulation, on an identical world

twinVars == <<pattern, first, second>>

VARIABLES
    asked,            \* the grid, the tile and the distance of a neighbour query
    neighborTiles,    \* what GetNeighborTiles did on them
    edgeNeighborTiles \* what GetEdgeNeighborTiles did on them

neighborVars == <<asked, neighborTiles, edgeNeighborTiles>>

VARIABLES
    pair,             \* a world, a target next to its tile (0,0), and the wind
    calculated        \* what CalculateFireSpreadProbability computed for them

factorVars == <<pair, calculated>>

VARIABLES
    windCase,
    windResult

windVars == <<windCase, windResult>>

VARIABLES
    riverLake,
    riverMask,
    rivers,
    started,
    walk,
    occupied

riverVars == <<riverLake, riverMask, rivers, started, walk, occupied>>

VARIABLES
    terrain,
    terrainMap,
    terrainStage

terrainVars == <<terrain, terrainMap, terrainStage>>

\* for each component, the state of all the others
componentVars == <<generatorVars, containerVars, gridVars, normalizeVars, probabilityVars,
    perTileVars, twinVars, neighborVars, factorVars, windVars, riverVars, terrainVars>>
besidesGenerator == <<vars, containerVars, gridVars, normalizeVars, probabilityVars, perTileVars,
    twinVars, neighborVars, factorVars, windVars, riverVars, terrainVars>>
besidesContainer == <<vars, generatorVars, gridVars, normalizeVars, probabilityVars, perTileVars,
    twinVars, neighborVars, factorVars, windVars, riverVars, terrainVars>>
besidesGrid == <<vars, generatorVars, containerVars, normalizeVars, probabilityVars, perTileVars,
    twinVars, neighborVars, factorVars, windVars, riverVars, terrainVars>>
besidesNormalize == <<vars, generatorVars, containerVars, gridVars, probabilityVars, perTileVars,
    twinVars, neighborVars, factorVars, windVars, riverVars, terrainVars>>
besidesProbability == <<vars, generatorVars, containerVars, gridVars, normalizeVars, perTileVars,
    twinVars, neighborVars, factorVars, windVars, riverVars, terrainVars>>
besidesPerTile == <<vars, generatorVars, containerVars, gridVars, normalizeVars, probabilityVars,
    twinVars, neighborVars, factorVars, windVars, riverVars, terrainVars>>
besidesTwin == <<vars, generatorVars, containerVars, gridVars, normalizeVars, probabilityVars,
    perTileVars, neighborVars, factorVars, windVars, riverVars, terrainVars>>
besidesNeighbor == <<vars, generatorVars, containerVars, gridVars, normalizeVars, probabilityVars,
    perTileVars, twinVars, factorVars, windVars, riverVars, terrainVars>>
besidesFactor == <<vars, generatorVars, containerVars, gridVars, normalizeVars, probabilityVars,
    perTileVars, twinVars, neighborVars, windVars, riverVars, terrainVars>>
besidesWind == <<vars, generatorVars, containerVars, gridVars, normalizeVars, probabilityVars,
    perTileVars, twinVars, neighborVars, factorVars, riverVars, terrainVars>>
besidesRiver == <<vars, generatorVars, containerVars, gridVars, normalizeVars, probabilityVars,
    perTileVars, twinVars, neighborVars, factorVars, windVars, terrainVars>>
besidesTerrain == <<vars, generatorVars, containerVars, gridVars, normalizeVars, probabilityVars,
    perTileVars, twinVars, neighborVars, factorVars, windVars, riverVars>>

\* the value of a variable of a component that is not running
Unused == "unused"

GeneratorUnused ==
    /\ lakeMap = Unused
    /\ riverMap = Unused
    /\ noiseField = Unused
    /\ moistureMap = Unused
    /\ scanned = Unused

ContainerUnused ==
    /\ singleParameters = Unused
    /\ vectorParameters = Unused
    /\ lookup = Unused

GridUnused ==
    /\ grid = Unused
    /\ allocated = Unused
    /\ deleted = Unused
    /\ result = Unused

NormalizeUnused ==
    /\ floatMap = Unused
    /\ normalized = Unused

ProbabilityUnused ==
    /\ totalProbability = Unused
    /\ updateSteps = Unused
    /\ returned = Unused

PerTileUnused ==
    /\ tileParameters = Unused
    /\ perTileTime = Unused
    /\ perTileBurning = Unused
    /\ perTileChanges = Unused
    /\ perTileOutcome = Unused

TwinUnused ==
    /\ pattern = Unused
    /\ first = Unused
    /\ second = Unused

NeighborUnused ==
    /\ asked = Unused
    /\ neighborTiles = Unused
    /\ edgeNeighborTiles = Unused

FactorUnused ==
    /\ pair = Unused
    /\ calculated = Unused

WindUnused ==
    /\ windCase = Unused
    /\ windResult = Unused

RiverUnused ==
    /\ riverLake = Unused
    /\ riverMask = Unused
    /\ rivers = Unused
    /\ started = Unused
    /\ walk = Unused
    /\ occupied = Unused

TerrainUnused ==
    /\ terrain = Unused
    /\ terrainMap = Unused
    /\ terrainStage = Unused

SimulationUnused ==
    /\ world = Unused
    /\ windSpeed = Unused
    /\ windDirection = Unused
    /\ isBurning = Unused
    /\ hasBurned = Unused
    /\ burningFor = Unused
    /\ burnTime = Unused
    /\ currentTime = Unused
    /\ burningTiles = Unused
    /\ prohibitedTiles = Unused
    /\ changesOverTime = Unused

\* one component is constructed, the others are not
OnlySimulation ==
    GeneratorUnused /\ ContainerUnused /\ GridUnused /\ NormalizeUnused /\ ProbabilityUnused /\
    PerTileUnused /\ TwinUnused /\ NeighborUnused /\ FactorUnused /\ WindUnused /\ RiverUnused /\
    TerrainUnused
OnlyGenerator ==
    SimulationUnused /\ ContainerUnused /\ GridUnused /\ NormalizeUnused /\ ProbabilityUnused /\
    PerTileUnused /\ TwinUnused /\ NeighborUnused /\ FactorUnused /\ WindUnused /\ RiverUnused /\
    TerrainUnused
OnlyContainer ==
    SimulationUnused /\ GeneratorUnused /\ GridUnused /\ NormalizeUnused /\ ProbabilityUnused /\
    PerTileUnused /\ TwinUnused /\ NeighborUnused /\ FactorUnused /\ WindUnused /\ RiverUnused /\
    TerrainUnused
OnlyGrid ==
    SimulationUnused /\ GeneratorUnused /\ ContainerUnused /\ NormalizeUnused /\
    ProbabilityUnused /\ PerTileUnused /\ TwinUnused /\ NeighborUnused /\ FactorUnused /\
    WindUnused /\ RiverUnused /\ TerrainUnused
OnlyNormalize ==
    SimulationUnused /\ GeneratorUnused /\ ContainerUnused /\ GridUnused /\ ProbabilityUnused /\
    PerTileUnused /\ TwinUnused /\ NeighborUnused /\ FactorUnused /\ WindUnused /\ RiverUnused /\
    TerrainUnused
OnlyProbability ==
    SimulationUnused /\ GeneratorUnused /\ ContainerUnused /\ GridUnused /\ NormalizeUnused /\
    PerTileUnused /\ TwinUnused /\ NeighborUnused /\ FactorUnused /\ WindUnused /\ RiverUnused /\
    TerrainUnused
OnlyPerTile ==
    SimulationUnused /\ GeneratorUnused /\ ContainerUnused /\ GridUnused /\ NormalizeUnused /\
    ProbabilityUnused /\ TwinUnused /\ NeighborUnused /\ FactorUnused /\ WindUnused /\
    RiverUnused /\ TerrainUnused
OnlyTwin ==
    SimulationUnused /\ GeneratorUnused /\ ContainerUnused /\ GridUnused /\ NormalizeUnused /\
    ProbabilityUnused /\ PerTileUnused /\ NeighborUnused /\ FactorUnused /\ WindUnused /\
    RiverUnused /\ TerrainUnused
OnlyNeighbor ==
    SimulationUnused /\ GeneratorUnused /\ ContainerUnused /\ GridUnused /\ NormalizeUnused /\
    ProbabilityUnused /\ PerTileUnused /\ TwinUnused /\ FactorUnused /\ WindUnused /\
    RiverUnused /\ TerrainUnused
OnlyFactor ==
    SimulationUnused /\ GeneratorUnused /\ ContainerUnused /\ GridUnused /\ NormalizeUnused /\
    ProbabilityUnused /\ PerTileUnused /\ TwinUnused /\ NeighborUnused /\ WindUnused /\
    RiverUnused /\ TerrainUnused
OnlyWind ==
    SimulationUnused /\ GeneratorUnused /\ ContainerUnused /\ GridUnused /\ NormalizeUnused /\
    ProbabilityUnused /\ PerTileUnused /\ TwinUnused /\ NeighborUnused /\ FactorUnused /\
    RiverUnused /\ TerrainUnused
OnlyRiver ==
    SimulationUnused /\ GeneratorUnused /\ ContainerUnused /\ GridUnused /\ NormalizeUnused /\
    ProbabilityUnused /\ PerTileUnused /\ TwinUnused /\ NeighborUnused /\ FactorUnused /\
    WindUnused /\ TerrainUnused
OnlyTerrain ==
    SimulationUnused /\ GeneratorUnused /\ ContainerUnused /\ GridUnused /\ NormalizeUnused /\
    ProbabilityUnused /\ PerTileUnused /\ TwinUnused /\ NeighborUnused /\ FactorUnused /\
    WindUnused /\ RiverUnused

NoChanges == [k \in {} |-> <<>>]

\* a variant that stores the burn time of tile (i, j) at index j * depth + i
InitBurnTimeTransposed(w) ==
    [k \in 0..TotalTiles(w) - 1 |->
        Clamp(0, BurnTimeMax, BurnTimeOf(w.vegetation[<<k % GetDepth(w), k \div GetDepth(w)>>]))]

\* InitWorldParameters: the burnTime vector after the loop over the grid
InitBurnTime(w) ==
    [k \in 0..TotalTiles(w) - 1 |->
        Clamp(0, BurnTimeMax, BurnTimeOf(w.vegetation[<<k \div GetDepth(w), k % GetDepth(w)>>]))]

\* a variant that also takes the very wet tiles
SetProhibitedTilesWet(w) ==
    LET IsWet(tile) == w.moisture[tile] >= 90
    IN SelectSeq(GridOrder(w), IsWet)

\* SetProhibitedTiles
SetProhibitedTiles(w) ==
    LET IsWater(tile) == w.moisture[tile] = 100
    IN SelectSeq(GridOrder(w), IsWater)

\* the constructor FireSpreadSimulation(world)
InitIn(worlds) ==
    /\ world \in worlds
    /\ windSpeed = WindSpeedInitial
    /\ windDirection = WindDirectionInitial
    /\ isBurning = [k \in 0..TotalTiles(world) - 1 |-> FALSE]
    /\ hasBurned = [k \in 0..TotalTiles(world) - 1 |-> FALSE]
    /\ burningFor = [k \in 0..TotalTiles(world) - 1 |-> 0]
    /\ burnTime = InitBurnTime(world)
    /\ currentTime = 0
    /\ burningTiles = <<>>
    /\ prohibitedTiles = SetProhibitedTiles(world)
    /\ changesOverTime = NoChanges
    /\ OnlySimulation

Init == InitIn(Worlds)

\* ---------------------------------------------------------------- queries
\* a variant that looks at the tiles' flags instead of the burning list
HasEndedByFlags == \A k \in DOMAIN isBurning : ~isBurning[k]

HasEnded == burningTiles = <<>>

\* a variant that answers with the latest recorded change set
GetLastRecordedChanges ==
    IF DOMAIN changesOverTime = {} THEN <<>>
    ELSE changesOverTime[CHOOSE k \in DOMAIN changesOverTime :
                             \A j \in DOMAIN changesOverTime : j <= k]

GetLastChangedTiles ==
    IF currentTime \in DOMAIN changesOverTime THEN changesOverTime[currentTime] ELSE <<>>

GetProhibitedTiles == prohibitedTiles

\* sf::Color values of GetChangedTileColors
BurningColor == <<255, 105, 105>>
BurnedColor == <<180, 50, 50>>

\* the loop of GetChangedTileColors over the first k tiles of GetLastChangedTiles:
\* tileColors[tileIndex] = color inserts or overwrites
ColorTiles[k \in Nat] ==
    IF k = 0 THEN [j \in {} |-> BurnedColor]
    ELSE LET tile == GetLastChangedTiles[k]
             tileIndex == GetTileIndex(world, tile)
             color == IF isBurning[tileIndex] THEN BurningColor ELSE BurnedColor
         IN [j \in DOMAIN ColorTiles[k - 1] \cup {tileIndex} |->
                IF j = tileIndex THEN color ELSE ColorTiles[k - 1][j]]

GetChangedTileColors == ColorTiles[Len(GetLastChangedTiles)]

\* --------------------------------------------------------------- Initialize
\* the isBurning vector after SetValue(index, true) for each tile of the list
IgniteAll(startingTiles) ==
    [k \in DOMAIN isBurning |->
        IF \E j \in 1..Len(startingTiles) : GetTileIndex(world, startingTiles[j]) = k
          THEN ClampBool(FALSE, TRUE, TRUE) ELSE isBurning[k]]

\* duplicate-free lists of tiles of the world, at most MaxStart long
StartListsOf ==
    [w \in AllWorlds |->
        {seq \in UNION {[1..n -> Tiles(w)] : n \in 0..MaxStart} : IsDuplicateFree(seq)}]

StartLists(w) == StartListsOf[w]

\* a variant that keeps the earlier change log
InitializeKeepsLog(startingTiles) ==
    /\ currentTime' = 0
    /\ burningTiles' = startingTiles
    /\ isBurning' = IgniteAll(startingTiles)
    /\ changesOverTime' = IF startingTiles = <<>> THEN changesOverTime
                           ELSE (0 :> startingTiles) @@ changesOverTime
    /\ UNCHANGED <<componentVars, world, windSpeed, windDirection, hasBurned, burningFor, burnTime,
                   prohibitedTiles>>

\* a variant that collects the water tiles again
InitializeRescansWater(startingTiles) ==
    /\ currentTime' = 0
    /\ burningTiles' = startingTiles
    /\ isBurning' = IgniteAll(startingTiles)
    /\ changesOverTime' = IF startingTiles = <<>> THEN NoChanges ELSE (0 :> startingTiles)
    /\ prohibitedTiles' = SetProhibitedTiles(world)
    /\ UNCHANGED <<componentVars, world, windSpeed, windDirection, hasBurned, burningFor, burnTime>>

Initialize(startingTiles) ==
    /\ currentTime' = 0
    /\ burningTiles' = startingTiles
    /\ isBurning' = IgniteAll(startingTiles)
    /\ changesOverTime' = IF startingTiles = <<>> THEN NoChanges ELSE (0 :> startingTiles)
    /\ UNCHANGED <<componentVars, world, windSpeed, windDirection, hasBurned, burningFor, burnTime,
                   prohibitedTiles>>

\* ------------------------------------------------------------------- Update
CalculateFireSpreadProbability(source, target) ==
    StepProbabilityTable[AdjustedProbability(world, windSpeed, windDirection, source, target),
                         burnTime[GetTileIndex(world, source)]]

\* TryIgniteTile with the value drawn from Random::Range(0.0f, 1.0f)
TryIgniteTile(source, target, draw) ==
    FLess(draw, CalculateFireSpreadProbability(source, target))

\* a variant that forgets to carry the ignited neighbour to the next step
IgniteUnlisted(st, neighbor) ==
    [st EXCEPT !.isBurning[GetTileIndex(world, neighbor)] = ClampBool(FALSE, TRUE, TRUE),
               !.changed = Append(@, neighbor)]

\* a neighbour catching fire; st is the running state of one Update pass
Ignite(st, neighbor) ==
    [st EXCEPT !.nextBurningTiles = Append(@, neighbor),
               !.isBurning[GetTileIndex(world, neighbor)] = ClampBool(FALSE, TRUE, TRUE),
               !.changed = Append(@, neighbor)]

\* a variant of the inner loop that tests the flags as they were before the pass
RECURSIVE SpreadToNeighborsStale(_, _, _, _, _)
SpreadToNeighborsStale(st, tile, neighbors, k, samples) ==
    IF k > Len(neighbors) THEN {st}
    ELSE LET neighbor == neighbors[k]
             neighborIndex == GetTileIndex(world, neighbor)
         IN IF ~isBurning[neighborIndex] /\ ~hasBurned[neighborIndex]
              THEN UNION {IF ignites
                            THEN SpreadToNeighborsStale(Ignite(st, neighbor), tile, neighbors,
                                                        k + 1, samples)
                            ELSE SpreadToNeighborsStale(st, tile, neighbors, k + 1, samples) :
                          ignites \in {TryIgniteTile(tile, neighbor, draw) : draw \in samples}}
              ELSE SpreadToNeighborsStale(st, tile, neighbors, k + 1, samples)

\* the inner loop over the neighbours of one burning tile, from position k on:
\* the set of states it can end in, one per outcome of the draws, which
\* Random::Range takes from samples
RECURSIVE SpreadToNeighbors(_, _, _, _, _)
SpreadToNeighbors(st, tile, neighbors, k, samples) ==
    IF k > Len(neighbors) THEN {st}
    ELSE LET neighbor == neighbors[k]
             neighborIndex == GetTileIndex(world, neighbor)
         IN IF ~st.isBurning[neighborIndex] /\ ~st.hasBurned[neighborIndex]
              THEN UNION {IF ignites
                            THEN SpreadToNeighbors(Ignite(st, neighbor), tile, neighbors, k + 1, samples)
                            ELSE SpreadToNeighbors(st, tile, neighbors, k + 1, samples) :
                          ignites \in {TryIgniteTile(tile, neighbor, draw) : draw \in samples}}
              ELSE SpreadToNeighbors(st, tile, neighbors, k + 1, samples)

\* a variant that burns a tile out one step late (> in place of >=)
UpdateBurningDurationLate(st, tile) ==
    LET tileIndex == GetTileIndex(world, tile)
        newBurningFor == st.burningFor[tileIndex] + 1
    IN IF newBurningFor > burnTime[tileIndex]
         THEN [st EXCEPT !.isBurning[tileIndex] = ClampBool(FALSE, TRUE, FALSE),
                         !.hasBurned[tileIndex] = ClampBool(FALSE, TRUE, TRUE),
                         !.changed = Append(@, tile)]
         ELSE [st EXCEPT !.burningFor[tileIndex] = Clamp(0, BurningForMax, newBurningFor),
                         !.nextBurningTiles = Append(@, tile)]

\* a variant that does not store the incremented burningFor
UpdateBurningDurationUncounted(st, tile) ==
    LET tileIndex == GetTileIndex(world, tile)
        newBurningFor == st.burningFor[tileIndex] + 1
    IN IF newBurningFor >= burnTime[tileIndex]
         THEN [st EXCEPT !.isBurning[tileIndex] = ClampBool(FALSE, TRUE, FALSE),
                         !.hasBurned[tileIndex] = ClampBool(FALSE, TRUE, TRUE),
                         !.changed = Append(@, tile)]
         ELSE [st EXCEPT !.nextBurningTiles = Append(@, tile)]

\* a variant that also logs a tile that keeps burning
UpdateBurningDurationLogged(st, tile) ==
    LET tileIndex == GetTileIndex(world, tile)
        newBurningFor == st.burningFor[tileIndex] + 1
    IN IF newBurningFor >= burnTime[tileIndex]
         THEN [st EXCEPT !.isBurning[tileIndex] = ClampBool(FALSE, TRUE, FALSE),
                         !.hasBurned[tileIndex] = ClampBool(FALSE, TRUE, TRUE),
                         !.changed = Append(@, tile)]
         ELSE [st EXCEPT !.burningFor[tileIndex] = Clamp(0, BurningForMax, newBurningFor),
                         !.nextBurningTiles = Append(@, tile),
                         !.changed = Append(@, tile)]

\* a variant that ages every tile whose isBurning is set, listed or not
UpdateBurningDurationOfAll(st, tile) ==
    LET tileIndex == GetTileIndex(world, tile)
        newBurningFor == st.burningFor[tileIndex] + 1
        aged == [k \in DOMAIN st.burningFor |->
                    IF st.isBurning[k] THEN Clamp(0, BurningForMax, st.burningFor[k] + 1)
                    ELSE st.burningFor[k]]
    IN IF newBurningFor >= burnTime[tileIndex]
         THEN [st EXCEPT !.isBurning[tileIndex] = ClampBool(FALSE, TRUE, FALSE),
                         !.hasBurned[tileIndex] = ClampBool(FALSE, TRUE, TRUE),
                         !.burningFor = aged,
                         !.changed = Append(@, tile)]
         ELSE [st EXCEPT !.burningFor = aged,
                         !.nextBurningTiles = Append(@, tile)]

\* "Update burning duration" of one burning tile
UpdateBurningDuration(st, tile) ==
    LET tileIndex == GetTileIndex(world, tile)
        newBurningFor == st.burningFor[tileIndex] + 1
    IN IF newBurningFor >= burnTime[tileIndex]
         THEN [st EXCEPT !.isBurning[tileIndex] = ClampBool(FALSE, TRUE, FALSE),
                         !.hasBurned[tileIndex] = ClampBool(FALSE, TRUE, TRUE),
                         !.changed = Append(@, tile)]
         ELSE [st EXCEPT !.burningFor[tileIndex] = Clamp(0, BurningForMax, newBurningFor),
                         !.nextBurningTiles = Append(@, tile)]

\* a variant whose loop also visits the tiles ignited earlier in the pass
RECURSIVE BurnTilesSamePass(_, _, _)
BurnTilesSamePass(st, k, samples) ==
    LET IsNew(tile) == tile \notin Range(burningTiles)
        list == burningTiles \o SelectSeq(st.nextBurningTiles, IsNew)
    IN IF k > Len(list) THEN {st}
       ELSE UNION {BurnTilesSamePass(UpdateBurningDuration(spread, list[k]), k + 1, samples) :
                   spread \in SpreadToNeighbors(st, list[k], GetNeighborTiles(world, list[k], 1),
                                                1, samples)}

\* the outer loop over burningTiles_, from position k on
RECURSIVE BurnTiles(_, _, _)
BurnTiles(st, k, samples) ==
    IF k > Len(burningTiles) THEN {st}
    ELSE UNION {BurnTiles(UpdateBurningDuration(spread, burningTiles[k]), k + 1, samples) :
                spread \in SpreadToNeighbors(st, burningTiles[k],
                                             GetNeighborTiles(world, burningTiles[k], 1), 1,
                                             samples)}

UpdateOutcomes(samples) ==
    BurnTiles([isBurning |-> isBurning, hasBurned |-> hasBurned, burningFor |-> burningFor,
               nextBurningTiles |-> <<>>, changed |-> <<>>], 1, samples)

\* Update with a random source that returns values of samples
UpdateWith(samples) ==
    /\ currentTime < MaxTime
    /\ \E st \in UpdateOutcomes(samples) :
          /\ currentTime' = currentTime + 1
          /\ isBurning' = st.isBurning
          /\ hasBurned' = st.hasBurned
          /\ burningFor' = st.burningFor
          /\ burningTiles' = st.nextBurningTiles
          /\ changesOverTime' = IF st.changed = <<>> THEN changesOverTime
                                 ELSE changesOverTime @@ (currentTime + 1 :> st.changed)
    /\ UNCHANGED <<componentVars, world, windSpeed, windDirection, burnTime, prohibitedTiles>>

Update == UpdateWith(Samples)

\* -------------------------------------------------------------------- Reset
\* a variant that keeps the change log
ResetKeepsLog ==
    /\ currentTime' = 0
    /\ burningTiles' = <<>>
    /\ prohibitedTiles' = <<>>
    /\ windSpeed' = WindSpeedInitial
    /\ windDirection' = WindDirectionInitial
    /\ UNCHANGED <<componentVars, world, isBurning, hasBurned, burningFor, burnTime, changesOverTime>>

\* ParameterContainer::ResetParameters on the world: the single parameters only
Reset ==
    /\ currentTime' = 0
    /\ changesOverTime' = NoChanges
    /\ burningTiles' = <<>>
    /\ prohibitedTiles' = <<>>
    /\ windSpeed' = WindSpeedInitial
    /\ windDirection' = WindDirectionInitial
    /\ UNCHANGED <<componentVars, world, isBurning, hasBurned, burningFor, burnTime>>

\* ----------------------------------------- the caller setting the wind
SetWindSpeed(v) ==
    /\ windSpeed' = Clamp(WindSpeedMin, WindSpeedMax, v)
    /\ UNCHANGED <<componentVars, world, windDirection, isBurning, hasBurned, burningFor, burnTime,
                   currentTime, burningTiles, prohibitedTiles, changesOverTime>>

SetWindDirection(v) ==
    /\ windDirection' = Clamp(WindDirectionMin, WindDirectionMax, v)
    /\ UNCHANGED <<componentVars, world, windSpeed, isBurning, hasBurned, burningFor, burnTime,
                   currentTime, burningTiles, prohibitedTiles, changesOverTime>>

Next ==
    \/ \E startingTiles \in StartLists(world) : Initialize(startingTiles)
    \/ Update
    \/ Reset
    \/ \E v \in WindSpeedInputs : SetWindSpeed(v)
    \/ \E v \in WindDirectionInputs : SetWindDirection(v)

Spec == Init /\ [][Next]_vars

\* ------------------------------------------------- the 3x3 scenario
\* A simulation over a 3x3 world, where a tile has tiles that are not its
\* neighbours, ignited at a corner or at the centre, whose random source
\* returns positive values.
FrameStartLists == {<<>>, <<<<0, 0>>>>, <<<<1, 1>>>>}

PositiveSamples == Samples \ {FZero}

FrameInit == InitIn({DiagonalWorld})

FrameUpdate == UpdateWith(PositiveSamples)

FrameNext ==
    \/ \E startingTiles \in FrameStartLists : Initialize(startingTiles)
    \/ FrameUpdate
    \/ Reset
    \/ \E v \in WindSpeedInputs : SetWindSpeed(v)
    \/ \E v \in WindDirectionInputs : SetWindDirection(v)

SpecFrame == FrameInit /\ [][FrameNext]_vars

\* ------------------------------------------------- the stubbed scenario
\* A simulation over a world without water whose random source is stubbed
\* to return 0: it is constructed, initialized once, then updated.
StubbedSamples == {FZero}

StubbedInit == InitIn(DryWorlds)

\* nothing has happened since construction
IsFresh ==
    /\ currentTime = 0
    /\ burningTiles = <<>>
    /\ changesOverTime = NoChanges
    /\ \A k \in DOMAIN isBurning : ~isBurning[k] /\ ~hasBurned[k]

FirstInitialize(startingTiles) == IsFresh /\ Initialize(startingTiles)

StubbedUpdate == UpdateWith(StubbedSamples)

StubbedNext ==
    \/ \E startingTiles \in StartLists(world) : FirstInitialize(startingTiles)
    \/ StubbedUpdate
    \/ \E v \in WindSpeedInputs : SetWindSpeed(v)
    \/ \E v \in WindDirectionInputs : SetWindDirection(v)

SpecStubbed == StubbedInit /\ [][StubbedNext]_vars

\* ------------------------------------------------------------ a single run
\* One run of a simulation: it is constructed, initialized once, then
\* updated, with any draws of the random source.
RunNext ==
    \/ \E startingTiles \in StartLists(world) : FirstInitialize(startingTiles)
    \/ Update
    \/ \E v \in WindSpeedInputs : SetWindSpeed(v)
    \/ \E v \in WindDirectionInputs : SetWindDirection(v)

SpecRun == Init /\ [][RunNext]_vars

\* one run over the 3x3 world: constructed, initialized once, then updated
FrameRunNext ==
    \/ \E startingTiles \in FrameStartLists : FirstInitialize(startingTiles)
    \/ FrameUpdate
    \/ \E v \in WindSpeedInputs : SetWindSpeed(v)
    \/ \E v \in WindDirectionInputs : SetWindDirection(v)

SpecFrameRun == FrameInit /\ [][FrameRunNext]_vars


\* ==================================================================
\* MoistureMapGenerator (worldGenerator.h), run on its own
\* ==================================================================
GenWidth == 3
GenDepth == 2
MaxLake == 2

\* Map<T>: the dense width x depth array
MakeMap(width, depth, defaultValue) ==
    [width |-> width, depth |-> depth,
     data |-> [cell \in (0..width - 1) \X (0..depth - 1) |-> defaultValue]]

InMap(map, px, py) == px >= 0 /\ px < map.width /\ py >= 0 /\ py < map.depth

SetData(map, px, py, value) ==
    IF InMap(map, px, py) THEN [map EXCEPT !.data[<<px, py>>] = value] ELSE map

GetData(map, px, py, defaultValue) ==
    IF InMap(map, px, py) THEN map.data[<<px, py>>] ELSE defaultValue

moistureRadius == 2
maxMoisture == 100

Abs(n) == IF n < 0 THEN -n ELSE n
Min(a, b) == IF b < a THEN b ELSE a
Max(a, b) == IF a < b THEN b ELSE a

\* the offsets (dx, dy) in the order of the two loops of SpreadMoisture
SpreadOffsets ==
    LET side == 2 * moistureRadius + 1
    IN [k \in 1..side * side |->
           <<((k - 1) \div side) - moistureRadius, ((k - 1) % side) - moistureRadius>>]

\* a variant that adds the influence without the cap
SpreadToUncapped(map, px, py, offset) ==
    LET nx == px + offset[1]
        ny == py + offset[2]
        distance == Abs(offset[1]) + Abs(offset[2])
        influence == maxMoisture - distance * (maxMoisture \div moistureRadius)
    IN IF InMap(map, nx, ny) /\ distance <= moistureRadius
         THEN SetData(map, nx, ny, GetData(map, nx, ny, 0) + influence)
         ELSE map

\* the body of the loops of SpreadMoisture for one offset
SpreadTo(map, px, py, offset) ==
    LET nx == px + offset[1]
        ny == py + offset[2]
        distance == Abs(offset[1]) + Abs(offset[2])
        influence == maxMoisture - distance * (maxMoisture \div moistureRadius)
    IN IF InMap(map, nx, ny) /\ distance <= moistureRadius
         THEN SetData(map, nx, ny, Min(GetData(map, nx, ny, 0) + influence, maxMoisture))
         ELSE map

\* a variant that stores the influence in place of adding it
SpreadMoistureOverwriting(px, py, map) ==
    LET Stored(m, offset) ==
            LET nx == px + offset[1]
                ny == py + offset[2]
                distance == Abs(offset[1]) + Abs(offset[2])
                influence == maxMoisture - distance * (maxMoisture \div moistureRadius)
            IN IF InMap(m, nx, ny) /\ distance <= moistureRadius
                 THEN SetData(m, nx, ny, Min(influence, maxMoisture))
                 ELSE m
        spread[k \in 0..Len(SpreadOffsets)] ==
            IF k = 0 THEN map ELSE Stored(spread[k - 1], SpreadOffsets[k])
    IN spread[Len(SpreadOffsets)]

SpreadMoisture(px, py, map) ==
    LET spread[k \in 0..Len(SpreadOffsets)] ==
            IF k = 0 THEN map ELSE SpreadTo(spread[k - 1], px, py, SpreadOffsets[k])
    IN spread[Len(SpreadOffsets)]

\* the moisture of a dry cell from its noise (in thousandths): normalise
\* from -1..1 to 0..1, scale to 0..100, clamp, truncate to int
NoiseMoisture(noise) ==
    LET scaledNoise == (noise + 1000) * 50
        clampedNoise == Max(0, Min(scaledNoise, 100 * 1000))
    IN clampedNoise \div 1000

GenCells == (0..GenWidth - 1) \X (0..GenDepth - 1)

\* lake masks with at most MaxLake lake cells
LakeMaps ==
    {[width |-> GenWidth, depth |-> GenDepth, data |-> [cell \in GenCells |-> cell \in lake]] :
        lake \in {cs \in SUBSET GenCells : Cardinality(cs) <= MaxLake}}

\* no river, or a river along the row x = 0
RiverMaps ==
    {MakeMap(GenWidth, GenDepth, FALSE),
     [width |-> GenWidth, depth |-> GenDepth, data |-> [cell \in GenCells |-> cell[1] = 0]]}

\* values of perlin(...), in thousandths
NoiseInputs == {-1000, -1, 337, 1000}

\* noise fields: constant ones, and one that changes from cell to cell
NoiseFields ==
    {[cell \in GenCells |-> v] : v \in NoiseInputs}
        \cup {[cell \in GenCells |-> IF (cell[1] + cell[2]) % 2 = 0 THEN 1000 ELSE -1000]}

GeneratorInit ==
    /\ lakeMap \in LakeMaps
    /\ riverMap \in RiverMaps
    /\ noiseField \in NoiseFields
    /\ moistureMap = MakeMap(GenWidth, GenDepth, 0)
    /\ scanned = 0
    /\ OnlyGenerator

\* one pass of the body of the two loops of MoistureMapGenerator::Generate
ScanCell ==
    /\ scanned < moistureMap.width * moistureMap.depth
    /\ LET px == scanned \div moistureMap.depth
           py == scanned % moistureMap.depth
       IN moistureMap' =
            IF GetData(lakeMap, px, py, FALSE) = TRUE \/ GetData(riverMap, px, py, FALSE) = TRUE
              THEN SpreadMoisture(px, py, SetData(moistureMap, px, py, maxMoisture))
              ELSE SetData(moistureMap, px, py, NoiseMoisture(noiseField[<<px, py>>]))
    /\ scanned' = scanned + 1
    /\ UNCHANGED <<besidesGenerator, lakeMap, riverMap, noiseField>>

GeneratorNext == ScanCell

SpecGenerator == GeneratorInit /\ [][GeneratorNext]_generatorVars

\* ==================================================================
\* ParameterContainer, TypedParameter, TypedVectorParameter
\* (worldClasses.h), run on their own
\* ==================================================================
VectorSize == 2

\* the name parameters are stored under, and the names looked up
ParameterNames == {"burningFor"}
LookupNames == ParameterNames \cup {"windSpeed"}
ParameterTypes == {"float", "int", "bool"}

\* a bool is held as 0 (false) or 1 (true), a float as a whole number

\* TypedParameter<T>(initialValue, minValue, maxValue)
TypedParameter(type, initialValue, minValue, maxValue) ==
    [type |-> type, initialValue |-> initialValue, value |-> initialValue,
     minValue |-> minValue, maxValue |-> maxValue]

\* TypedVectorParameter<T>(size, initialValue, minValue, maxValue)
TypedVectorParameter(type, size, initialValue, minValue, maxValue) ==
    [type |-> type, initialValue |-> initialValue,
     values |-> [k \in 0..size - 1 |-> initialValue],
     minValue |-> minValue, maxValue |-> maxValue]

\* the parameters a caller constructs: the initial value within the range
NewParameters ==
    {TypedParameter("float", 1, 0, 2), TypedParameter("int", 0, 0, 2)}
NewVectorParameters ==
    {TypedVectorParameter("bool", VectorSize, 0, 0, 1),
     TypedVectorParameter("int", VectorSize, 1, 0, 1)}

\* the values and indices a caller hands to SetValue
ValueInputs(type) == IF type = "bool" THEN 0..1 ELSE -1..3
IndexInputs == 0..VectorSize

NoParameters == [name \in {} |-> Unused]
\* the null pointer: it points into no container
Null == [container |-> "none", name |-> "none", as |-> "none"]

ContainerInit ==
    /\ singleParameters = NoParameters
    /\ vectorParameters = NoParameters
    /\ lookup = Null
    /\ OnlyContainer

AddParameter(name, parameter) ==
    /\ singleParameters' =
          [n \in DOMAIN singleParameters \cup {name} |->
              IF n = name THEN parameter ELSE singleParameters[n]]
    /\ UNCHANGED <<besidesContainer, vectorParameters, lookup>>

AddVectorParameter(name, parameter) ==
    /\ vectorParameters' =
          [n \in DOMAIN vectorParameters \cup {name} |->
              IF n = name THEN parameter ELSE vectorParameters[n]]
    /\ UNCHANGED <<besidesContainer, singleParameters, lookup>>

\* a variant of TypedParameter::SetValue that only enforces the maximum
SetValueNoMinimum(name, value) ==
    /\ name \in DOMAIN singleParameters
    /\ singleParameters' =
          [singleParameters EXCEPT
              ![name].value = IF singleParameters[name].maxValue < value
                                THEN singleParameters[name].maxValue ELSE value]
    /\ UNCHANGED <<besidesContainer, vectorParameters, lookup>>

\* TypedParameter::SetValue on the parameter stored under name
SetValue(name, value) ==
    /\ name \in DOMAIN singleParameters
    /\ singleParameters' =
          [singleParameters EXCEPT
              ![name].value = Clamp(singleParameters[name].minValue,
                                         singleParameters[name].maxValue, value)]
    /\ UNCHANGED <<besidesContainer, vectorParameters, lookup>>

\* TypedVectorParameter::SetValue; an index past the end throws and stores nothing
SetVectorValue(name, index, value) ==
    /\ name \in DOMAIN vectorParameters
    /\ vectorParameters' =
          IF index >= VectorSize THEN vectorParameters
          ELSE [vectorParameters EXCEPT
                   ![name].values[index] = Clamp(vectorParameters[name].minValue,
                                                      vectorParameters[name].maxValue, value)]
    /\ UNCHANGED <<besidesContainer, singleParameters, lookup>>

\* TypedParameter::Reset
ResetParameter(name) ==
    /\ name \in DOMAIN singleParameters
    /\ singleParameters' =
          [singleParameters EXCEPT ![name].value = singleParameters[name].initialValue]
    /\ UNCHANGED <<besidesContainer, vectorParameters, lookup>>

\* TypedVectorParameter::Reset
ResetVectorParameter(name) ==
    /\ name \in DOMAIN vectorParameters
    /\ vectorParameters' =
          [vectorParameters EXCEPT
              ![name].values = [k \in DOMAIN @ |-> vectorParameters[name].initialValue]]
    /\ UNCHANGED <<besidesContainer, singleParameters, lookup>>

\* ParameterContainer::ResetParameters: the loop over singleParameters_
ResetParameters ==
    /\ singleParameters' =
          [n \in DOMAIN singleParameters |->
              [singleParameters[n] EXCEPT !.value = singleParameters[n].initialValue]]
    /\ UNCHANGED <<besidesContainer, vectorParameters, lookup>>

\* a pointer to the parameter stored under name, seen as one of the type asked for
Pointer(kind, name, type) == [container |-> kind, name |-> name, as |-> type]

\* GetParameter<T>(name): find, then dynamic_pointer_cast
GetParameter(name, type) ==
    /\ lookup' = IF name \in DOMAIN singleParameters
                   THEN IF singleParameters[name].type = type
                          THEN Pointer("single", name, type) ELSE Null
                   ELSE Null
    /\ UNCHANGED <<besidesContainer, singleParameters, vectorParameters>>

\* GetVectorParameter<T>(name): find, then static_pointer_cast
GetVectorParameter(name, type) ==
    /\ lookup' = IF name \in DOMAIN vectorParameters
                   THEN Pointer("vector", name, type)
                   ELSE Null
    /\ UNCHANGED <<besidesContainer, singleParameters, vectorParameters>>

ContainerNext ==
    \/ \E name \in ParameterNames, parameter \in NewParameters : AddParameter(name, parameter)
    \/ \E name \in ParameterNames, parameter \in NewVectorParameters :
          AddVectorParameter(name, parameter)
    \/ \E name \in ParameterNames :
          \E value \in IF name \in DOMAIN singleParameters
                          THEN ValueInputs(singleParameters[name].type) ELSE {} :
             SetValue(name, value)
    \/ \E name \in ParameterNames, index \in IndexInputs :
          \E value \in IF name \in DOMAIN vectorParameters
                          THEN ValueInputs(vectorParameters[name].type) ELSE {} :
             SetVectorValue(name, index, value)
    \/ \E name \in ParameterNames : ResetParameter(name)
    \/ \E name \in ParameterNames : ResetVectorParameter(name)
    \/ ResetParameters
    \/ \E name \in LookupNames, type \in ParameterTypes : GetParameter(name, type)
    \/ \E name \in LookupNames, type \in ParameterTypes : GetVectorParameter(name, type)

SpecContainer == ContainerInit /\ [][ContainerNext]_containerVars

\* ==================================================================
\* World: the grid of Tile pointers, GetTileAt and SetTileAt
\* (worldClasses.h)
\* ==================================================================
GridWidth == 2
GridDepth == 2
MaxTiles == 3

nullptr == 0

\* the cells of World(GridWidth, GridDepth)
GridCells == (0..Max(0, GridWidth) - 1) \X (0..Max(0, GridDepth) - 1)

\* the coordinates a caller hands over: every cell and one step past each edge
XInputs == -1..GridWidth
YInputs == -1..GridDepth

\* the test GetTileAt and SetTileAt make before they touch the grid
OutOfGrid(x, y) == x < 0 \/ x >= Max(0, GridWidth) \/ y < 0 \/ y >= Max(0, GridDepth)

\* how a call ends: it throws std::out_of_range, or it returns (a tile, for
\* GetTileAt; nothing, written as nullptr, for SetTileAt)
OutOfRange(call) == [call |-> call, ends |-> "out_of_range", tile |-> nullptr]
Returns(call, tile) == [call |-> call, ends |-> "returns", tile |-> tile]

GridInit ==
    /\ grid = [cell \in GridCells |-> nullptr]
    /\ allocated = 0
    /\ deleted = {}
    /\ result = Returns("World", nullptr)
    /\ OnlyGrid

GetTileAt(x, y) ==
    /\ result' = IF OutOfGrid(x, y) THEN OutOfRange("GetTileAt")
                   ELSE Returns("GetTileAt", grid[<<x, y>>])
    /\ UNCHANGED <<besidesGrid, grid, allocated, deleted>>

\* a variant of SetTileAt that indexes the grid depth first
SetTileAtDepthFirst(x, y) ==
    /\ allocated < MaxTiles
    /\ allocated' = allocated + 1
    /\ IF OutOfGrid(x, y)
         THEN /\ result' = OutOfRange("SetTileAt")
              /\ UNCHANGED <<grid, deleted>>
         ELSE /\ deleted' = deleted \cup ({grid[<<y, x>>]} \ {nullptr})
              /\ grid' = [grid EXCEPT ![<<y, x>>] = allocated + 1]
              /\ result' = Returns("SetTileAt", nullptr)
    /\ UNCHANGED besidesGrid

\* SetTileAt(x, y, new Tile(...)): the tile handed over is a new object
SetTileAt(x, y) ==
    /\ allocated < MaxTiles
    /\ allocated' = allocated + 1
    /\ IF OutOfGrid(x, y)
         THEN /\ result' = OutOfRange("SetTileAt")
              /\ UNCHANGED <<grid, deleted>>
         ELSE /\ deleted' = deleted \cup ({grid[<<x, y>>]} \ {nullptr})
              /\ grid' = [grid EXCEPT ![<<x, y>>] = allocated + 1]
              /\ result' = Returns("SetTileAt", nullptr)
    /\ UNCHANGED besidesGrid

GridNext ==
    \/ \E x \in XInputs, y \in YInputs : GetTileAt(x, y)
    \/ \E x \in XInputs, y \in YInputs : SetTileAt(x, y)

SpecGrid == GridInit /\ [][GridNext]_gridVars

\* ==================================================================
\* Map<float>::Normalize (worldGenerator.h)
\*
\* A cell holds a float with a sign: a finite value neg, mag (mag a value
\* of the format above), positive infinity, or NaN.  A result whose
\* exponent passes MaxExponent is infinity, as in IEEE arithmetic.
\* ==================================================================
NormWidth == 2
MaxExponent == 127

Finite(neg, mag) == [kind |-> "finite", neg |-> IF mag[1] = 0 THEN 0 ELSE neg, mag |-> mag]
Infinity == [kind |-> "inf", neg |-> 0, mag |-> FZero]
NaN == [kind |-> "nan", neg |-> 0, mag |-> FZero]

\* a rounded magnitude as a float: infinity once it passes the largest float
Rounded(neg, mag) ==
    IF mag[1] # 0 /\ mag[2] + MantBits - 1 > MaxExponent THEN Infinity
    ELSE Finite(neg, mag)

\* std::numeric_limits<float>::max() and lowest()
FloatMax == Finite(0, <<2^MantBits - 1, MaxExponent - MantBits + 1>>)
FloatLowest == Finite(1, <<2^MantBits - 1, MaxExponent - MantBits + 1>>)

\* operator< on float: false when an operand is NaN
Less(a, b) ==
    IF a.kind = "nan" \/ b.kind = "nan" THEN FALSE
    ELSE IF a.kind = "inf" THEN FALSE
    ELSE IF b.kind = "inf" THEN TRUE
    ELSE IF a.neg = 1 /\ b.neg = 0 THEN TRUE
    ELSE IF a.neg = 0 /\ b.neg = 1 THEN FALSE
    ELSE IF a.neg = 0 THEN FLess(a.mag, b.mag)
    ELSE FLess(b.mag, a.mag)

\* std::min(a, b) and std::max(a, b)
StdMin(a, b) == IF Less(b, a) THEN b ELSE a
StdMax(a, b) == IF Less(a, b) THEN b ELSE a

\* operator- on float
Minus(a, b) ==
    IF a.kind = "nan" \/ b.kind = "nan" THEN NaN
    ELSE IF a.kind = "inf" THEN (IF b.kind = "inf" THEN NaN ELSE Infinity)
    ELSE IF b.kind = "inf" THEN NaN
    ELSE IF a.neg # b.neg THEN Rounded(a.neg, FAdd(a.mag, b.mag))
    ELSE IF FLeq(b.mag, a.mag) THEN Rounded(a.neg, FSub(a.mag, b.mag))
    ELSE Rounded(1 - a.neg, FSub(b.mag, a.mag))

\* operator/ on float, for a divisor above zero
Divide(a, b) ==
    IF a.kind = "nan" \/ b.kind = "nan" THEN NaN
    ELSE IF a.kind = "inf" THEN (IF b.kind = "inf" THEN NaN ELSE Infinity)
    ELSE IF b.kind = "inf" THEN Finite(0, FZero)
    ELSE Rounded(a.neg, FDiv(a.mag, b.mag))

\* the cells in the order of the loops over x and y
MapOrder(m) == [k \in 1..m.width * m.depth |-> <<(k - 1) \div m.depth, (k - 1) % m.depth>>]

\* the first pair of loops: minValue and maxValue after k cells
FindMin(m, k) ==
    LET scan[j \in 0..k] ==
           IF j = 0 THEN FloatMax ELSE StdMin(scan[j - 1], m.data[MapOrder(m)[j]])
    IN scan[k]
FindMax(m, k) ==
    LET scan[j \in 0..k] ==
           IF j = 0 THEN FloatLowest ELSE StdMax(scan[j - 1], m.data[MapOrder(m)[j]])
    IN scan[k]

\* a variant of Normalize that does not subtract the minimum
NormalizeUnshifted(m) ==
    IF m.width = 0 \/ m.depth = 0 THEN m
    ELSE LET minValue == FindMin(m, m.width * m.depth)
             maxValue == FindMax(m, m.width * m.depth)
         IN IF minValue = maxValue THEN m
            ELSE [m EXCEPT !.data =
                     [cell \in DOMAIN m.data |->
                         Divide(m.data[cell], Minus(maxValue, minValue))]]

Normalize(m) ==
    IF m.width = 0 \/ m.depth = 0 THEN m
    ELSE LET minValue == FindMin(m, m.width * m.depth)
             maxValue == FindMax(m, m.width * m.depth)
         IN IF minValue = maxValue THEN m
            ELSE [m EXCEPT !.data =
                     [cell \in DOMAIN m.data |->
                         Divide(Minus(m.data[cell], minValue), Minus(maxValue, minValue))]]

\* the values a caller stores in a cell: 0, 0.3, 1, 2, -1 and the two
\* largest finite floats
CellInputs ==
    {Finite(0, FZero), Finite(0, Dec(3, 10)), Finite(0, FOne), Finite(0, Fl(2, 0)),
     Finite(1, FOne), FloatMax, FloatLowest}

\* the maps normalised: NormWidth x 2 with any inputs, and an empty map
FloatMaps ==
    {[width |-> NormWidth, depth |-> 2, data |-> d] :
        d \in [(0..NormWidth - 1) \X (0..1) -> CellInputs]}
    \cup {MakeMap(0, 2, Finite(0, FZero))}

NormalizeInit ==
    /\ floatMap \in FloatMaps
    /\ normalized = 0
    /\ OnlyNormalize

NormalizeCall ==
    /\ normalized < 2
    /\ floatMap' = Normalize(floatMap)
    /\ normalized' = normalized + 1
    /\ UNCHANGED besidesNormalize

NormalizeNext == NormalizeCall

SpecNormalize == NormalizeInit /\ [][NormalizeNext]_normalizeVars

\* ==================================================================
\* Simulation::GetStepProbability called on its own (simulation.h)
\* ==================================================================
ProbabilityGrid == 5

\* total probabilities in [0,1): the multiples of 2^-ProbabilityGrid and the
\* vegetation factors of the source
ProbabilityInputs ==
    {Fl(k, -ProbabilityGrid) : k \in 0..2^ProbabilityGrid - 1}
    \cup {Dec(18, 100), Dec(25, 100), Dec(22, 100), Dec(4, 10)}

\* step counts: the burn times InitWorldParameters can store
StepInputs == 1..BurnTimeMax

ProbabilityInit ==
    /\ totalProbability \in ProbabilityInputs
    /\ updateSteps \in StepInputs
    /\ returned = <<>>
    /\ OnlyProbability

CallGetStepProbability ==
    /\ returned = <<>>
    /\ returned' = <<GetStepProbability(totalProbability, updateSteps)>>
    /\ UNCHANGED <<besidesProbability, totalProbability, updateSteps>>

ProbabilityNext == CallGetStepProbability

SpecProbability == ProbabilityInit /\ [][ProbabilityNext]_probabilityVars

\* the same call with a step count of zero or below, and a total
\* probability in [0,1]
MaxNegativeSteps == 2

DegenerateStepInputs == -MaxNegativeSteps..0

DegenerateInit ==
    /\ totalProbability \in ProbabilityInputs \cup {FOne}
    /\ updateSteps \in DegenerateStepInputs
    /\ returned = <<>>
    /\ OnlyProbability

SpecDegenerateSteps == DegenerateInit /\ [][ProbabilityNext]_probabilityVars


\* ==================================================================
\* FireSpreadSimulation with the fire state in the tiles' own parameters
\* (project/fireSimulator/simulation.h), wind left at its initial value
\* ==================================================================
PerTileWorld == DryMixedWorld

\* a Tile placed in the grid after InitWorldParameters ran: it holds none of
\* isBurning, hasBurned, burningFor, burnTime
NoTileParameters ==
    [present |-> 0, isBurning |-> 0, hasBurned |-> 0, burningFor |-> 0, burnTime |-> 0]

\* the four AddParameter calls of InitWorldParameters on a tile
NewTileParameters(tile) ==
    [present |-> 1, isBurning |-> 0, hasBurned |-> 0, burningFor |-> 0,
     burnTime |-> Clamp(0, BurnTimeMax, BurnTimeOf(PerTileWorld.vegetation[tile]))]

\* what dereferencing the null pointer of a failed GetParameter can end in:
\* a segmentation fault, or any other behaviour of the program
UndefinedOutcomes == {"crashed", "undefined"}

PerTileInit ==
    /\ tileParameters = [tile \in Tiles(PerTileWorld) |-> NewTileParameters(tile)]
    /\ perTileTime = 0
    /\ perTileBurning = <<>>
    /\ perTileChanges = NoChanges
    /\ perTileOutcome = "running"
    /\ OnlyPerTile

\* world.SetTileAt(x, y, new Tile(...)) by the owner of the world, between runs
ReplaceTile(tile) ==
    /\ perTileOutcome = "running"
    /\ perTileBurning = <<>>
    /\ tileParameters[tile].present = 1
    /\ tileParameters' = [tileParameters EXCEPT ![tile] = NoTileParameters]
    /\ UNCHANGED <<besidesPerTile, perTileTime, perTileBurning, perTileChanges, perTileOutcome>>

\* Initialize: a tile without the isBurning parameter is left out
PerTileInitialize(startingTiles) ==
    LET HasIsBurning(tile) == tileParameters[tile].present = 1
        listed == SelectSeq(startingTiles, HasIsBurning)
    IN /\ perTileOutcome = "running"
       /\ perTileTime' = 0
       /\ perTileBurning' = listed
       /\ perTileChanges' = IF listed = <<>> THEN NoChanges ELSE (0 :> listed)
       /\ tileParameters' = [tile \in DOMAIN tileParameters |->
                                IF tile \in Range(listed)
                                  THEN [tileParameters[tile] EXCEPT !.isBurning = 1]
                                  ELSE tileParameters[tile]]
       /\ UNCHANGED <<besidesPerTile, perTileOutcome>>

\* TryIgniteTile with the value drawn from Random::Range(0.0f, 1.0f)
PerTileTryIgniteTile(st, source, target, draw) ==
    FLess(draw, StepProbabilityTable[AdjustedProbability(PerTileWorld, WindSpeedInitial,
                                                         WindDirectionInitial, source, target),
                                     st.parameters[source].burnTime])

\* the inner loop of Update over the neighbours of one burning tile, from
\* position k on, every parameter being present
RECURSIVE PerTileSpread(_, _, _, _, _)
PerTileSpread(st, tile, neighbors, k, draw) ==
    IF k > Len(neighbors) THEN st
    ELSE LET neighbor == neighbors[k]
         IN IF /\ st.parameters[neighbor].isBurning = 0
               /\ st.parameters[neighbor].hasBurned = 0
               /\ PerTileTryIgniteTile(st, tile, neighbor, draw)
              THEN PerTileSpread([st EXCEPT !.nextBurningTiles = Append(@, neighbor),
                                            !.parameters[neighbor].isBurning = 1,
                                            !.changed = Append(@, neighbor)],
                                 tile, neighbors, k + 1, draw)
              ELSE PerTileSpread(st, tile, neighbors, k + 1, draw)

\* "Update burning duration" of one burning tile
PerTileBurningDuration(st, tile) ==
    LET newBurningFor == st.parameters[tile].burningFor + 1
    IN IF newBurningFor >= st.parameters[tile].burnTime
         THEN [st EXCEPT !.parameters[tile].isBurning = 0,
                         !.parameters[tile].hasBurned = 1,
                         !.changed = Append(@, tile)]
         ELSE [st EXCEPT !.parameters[tile].burningFor = Clamp(0, BurningForMax, newBurningFor),
                         !.nextBurningTiles = Append(@, tile)]

\* the outer loop of Update over burningTiles_, from position k on
RECURSIVE PerTileBurnTiles(_, _, _)
PerTileBurnTiles(st, k, draw) ==
    IF k > Len(perTileBurning) THEN st
    ELSE PerTileBurnTiles(
             PerTileBurningDuration(
                 PerTileSpread(st, perTileBurning[k],
                               GetNeighborTiles(PerTileWorld, perTileBurning[k], 1), 1, draw),
                 perTileBurning[k]),
             k + 1, draw)

\* Update reaches neighbor->GetParameter<bool>("isBurning")->GetValue() for a
\* neighbour that holds no parameters: GetParameter returns nullptr
DereferencesNull ==
    \E j \in 1..Len(perTileBurning) :
        \E neighbor \in Range(GetNeighborTiles(PerTileWorld, perTileBurning[j], 1)) :
            tileParameters[neighbor].present = 0

\* Update, with the random source returning draw throughout the step
PerTileUpdate(draw) ==
    /\ perTileOutcome = "running"
    /\ perTileTime < MaxTime
    /\ IF DereferencesNull
         THEN /\ perTileOutcome' \in UndefinedOutcomes
              /\ perTileTime' = perTileTime + 1
              /\ UNCHANGED <<tileParameters, perTileBurning, perTileChanges>>
         ELSE LET st == PerTileBurnTiles([parameters |-> tileParameters,
                                          nextBurningTiles |-> <<>>, changed |-> <<>>], 1, draw)
              IN /\ perTileTime' = perTileTime + 1
                 /\ tileParameters' = st.parameters
                 /\ perTileBurning' = st.nextBurningTiles
                 /\ perTileChanges' = IF st.changed = <<>> THEN perTileChanges
                                       ELSE perTileChanges @@ (perTileTime + 1 :> st.changed)
                 /\ UNCHANGED perTileOutcome
    /\ UNCHANGED besidesPerTile

\* Reset: tile->ResetParameters() puts the parameters a tile holds back to
\* their initial values
PerTileReset ==
    /\ perTileOutcome = "running"
    /\ perTileTime' = 0
    /\ perTileChanges' = NoChanges
    /\ perTileBurning' = <<>>
    /\ tileParameters' = [tile \in DOMAIN tileParameters |->
                             IF tileParameters[tile].present = 1
                               THEN NewTileParameters(tile) ELSE tileParameters[tile]]
    /\ UNCHANGED <<besidesPerTile, perTileOutcome>>

\* the fire starts on one tile, or on none
PerTileStartLists == {seq \in StartLists(PerTileWorld) : Len(seq) <= 1}

PerTileNext ==
    \/ \E tile \in Tiles(PerTileWorld) : ReplaceTile(tile)
    \/ \E startingTiles \in PerTileStartLists : PerTileInitialize(startingTiles)
    \/ \E draw \in Samples : PerTileUpdate(draw)
    \/ PerTileReset

SpecPerTile == PerTileInit /\ [][PerTileNext]_perTileVars


\* ==================================================================
\* Two FireSpreadSimulation objects on identical worlds, fed the same
\* ignition list and the same random values (wind at its initial value)
\* ==================================================================
TwinWorld == DryMixedWorld

DrawPeriod == 3

\* the random source: a period of values, each igniting (0) or not (1/2)
DrawValues == {FZero, Fl(1, -1)}
Patterns == [1..DrawPeriod -> DrawValues]

\* a simulation right after its constructor; position is the place of the
\* random source in its period
NewSimulation ==
    [isBurning |-> [k \in 0..TotalTiles(TwinWorld) - 1 |-> FALSE],
     hasBurned |-> [k \in 0..TotalTiles(TwinWorld) - 1 |-> FALSE],
     burningFor |-> [k \in 0..TotalTiles(TwinWorld) - 1 |-> 0],
     currentTime |-> 0,
     burningTiles |-> <<>>,
     changesOverTime |-> NoChanges,
     position |-> 1]

TwinInit ==
    /\ pattern \in Patterns
    /\ first = NewSimulation
    /\ second = NewSimulation
    /\ OnlyTwin

\* Initialize on one simulation
Initialized(sim, startingTiles) ==
    [sim EXCEPT !.currentTime = 0,
                !.changesOverTime = IF startingTiles = <<>> THEN NoChanges
                                    ELSE (0 :> startingTiles),
                !.burningTiles = startingTiles,
                !.isBurning = [k \in DOMAIN sim.isBurning |->
                                  IF \E j \in 1..Len(startingTiles) :
                                         GetTileIndex(TwinWorld, startingTiles[j]) = k
                                    THEN ClampBool(FALSE, TRUE, TRUE) ELSE sim.isBurning[k]]]

\* both simulations, just constructed, are given the same list
TwinInitialize(startingTiles) ==
    /\ first = NewSimulation
    /\ second = NewSimulation
    /\ first' = Initialized(first, startingTiles)
    /\ second' = Initialized(second, startingTiles)
    /\ UNCHANGED <<besidesTwin, pattern>>

\* the inner loop of Update over the neighbours of one burning tile, from
\* position k on; TryIgniteTile is reached, and takes the next random value,
\* only for a neighbour that neither burns nor has burned
RECURSIVE SpreadInOrder(_, _, _, _)
SpreadInOrder(st, tile, neighbors, k) ==
    IF k > Len(neighbors) THEN st
    ELSE LET neighbor == neighbors[k]
             neighborIndex == GetTileIndex(TwinWorld, neighbor)
             spreadProbability ==
                 StepProbabilityTable[AdjustedProbability(TwinWorld, WindSpeedInitial,
                                                          WindDirectionInitial, tile, neighbor),
                                      InitBurnTime(TwinWorld)[GetTileIndex(TwinWorld, tile)]]
             drawn == [st EXCEPT !.sim.position = (@ % DrawPeriod) + 1]
         IN IF ~st.sim.isBurning[neighborIndex] /\ ~st.sim.hasBurned[neighborIndex]
              THEN IF FLess(pattern[st.sim.position], spreadProbability)
                     THEN SpreadInOrder(
                              [drawn EXCEPT !.nextBurningTiles = Append(@, neighbor),
                                            !.sim.isBurning[neighborIndex] =
                                                ClampBool(FALSE, TRUE, TRUE),
                                            !.changed = Append(@, neighbor)],
                              tile, neighbors, k + 1)
                     ELSE SpreadInOrder(drawn, tile, neighbors, k + 1)
              ELSE SpreadInOrder(st, tile, neighbors, k + 1)

\* "Update burning duration" of one burning tile
BurningDurationUpdated(st, tile) ==
    LET tileIndex == GetTileIndex(TwinWorld, tile)
        newBurningFor == st.sim.burningFor[tileIndex] + 1
    IN IF newBurningFor >= InitBurnTime(TwinWorld)[tileIndex]
         THEN [st EXCEPT !.sim.isBurning[tileIndex] = ClampBool(FALSE, TRUE, FALSE),
                         !.sim.hasBurned[tileIndex] = ClampBool(FALSE, TRUE, TRUE),
                         !.changed = Append(@, tile)]
         ELSE [st EXCEPT !.sim.burningFor[tileIndex] = Clamp(0, BurningForMax, newBurningFor),
                         !.nextBurningTiles = Append(@, tile)]

\* the outer loop of Update over the tiles of list, from position k on
RECURSIVE BurnInOrder(_, _, _)
BurnInOrder(st, list, k) ==
    IF k > Len(list) THEN st
    ELSE BurnInOrder(
             BurningDurationUpdated(
                 SpreadInOrder(st, list[k], GetNeighborTiles(TwinWorld, list[k], 1), 1),
                 list[k]),
             list, k + 1)

\* what Update leaves of the simulation once the loop is done
Finished(st) ==
    [st.sim EXCEPT !.burningTiles = st.nextBurningTiles,
                   !.changesOverTime = IF st.changed = <<>> THEN @
                                       ELSE @ @@ (st.sim.currentTime :> st.changed)]

\* the state Update starts its loop in: currentTime_ advanced, nothing listed
Started(sim) ==
    [sim |-> [sim EXCEPT !.currentTime = @ + 1], nextBurningTiles |-> <<>>, changed |-> <<>>]

\* the orders of the elements of a list
Orders(list) ==
    {[k \in 1..Len(list) |-> list[f[k]]] :
        f \in {g \in [1..Len(list) -> 1..Len(list)] : \A a, b \in 1..Len(list) : g[a] = g[b] => a = b}}

\* a variant that visits the burning tiles in an order of its choice, as a
\* container without a defined iteration order would
UpdatedAnyOrder(sim) ==
    {Finished(BurnInOrder(Started(sim), list, 1)) : list \in Orders(sim.burningTiles)}

\* Update on one simulation: the states it can leave
Updated(sim) == {Finished(BurnInOrder(Started(sim), sim.burningTiles, 1))}

\* both simulations take a step
TwinUpdate ==
    /\ first.currentTime < MaxTime
    /\ \E a \in Updated(first), b \in Updated(second) :
          /\ first' = a
          /\ second' = b
    /\ UNCHANGED <<besidesTwin, pattern>>

TwinNext ==
    \/ \E startingTiles \in StartLists(TwinWorld) : TwinInitialize(startingTiles)
    \/ TwinUpdate

SpecTwin == TwinInit /\ [][TwinNext]_twinVars


\* ==================================================================
\* World::GetNeighborTiles and World::GetEdgeNeighborTiles, called on their own
\* ==================================================================
MaxSide == 4
MaxDistance == 2

\* the grids: a World of side tiles by side tiles
SquareGrid(side) == [side |-> side]

\* the condition on which World::GetTileAt throws std::out_of_range
GetTileAtThrows(w, x, y) == x < 0 \/ x >= GetWidth(w) \/ y < 0 \/ y >= GetDepth(w)

\* how a neighbour query ends: the tiles it pushed, unless a GetTileAt threw
QueryResult(w, tiles) ==
    [thrown |-> IF \E k \in 1..Len(tiles) : GetTileAtThrows(w, tiles[k][1], tiles[k][2])
                  THEN 1 ELSE 0,
     tiles |-> tiles]

\* a variant that does not test y - 1 >= 0
GetEdgeNeighborTilesUnchecked(w, tile) ==
    LET x == tile[1]
        y == tile[2]
    IN (IF x + 1 < GetWidth(w) THEN <<<<x + 1, y>>>> ELSE <<>>)
       \o (IF x - 1 >= 0 THEN <<<<x - 1, y>>>> ELSE <<>>)
       \o (IF y + 1 < GetDepth(w) THEN <<<<x, y + 1>>>> ELSE <<>>)
       \o <<<<x, y - 1>>>>

\* the tiles GetEdgeNeighborTiles passes to GetTileAt, in the order of its pushes
GetEdgeNeighborTiles(w, tile) ==
    LET x == tile[1]
        y == tile[2]
    IN (IF x + 1 < GetWidth(w) THEN <<<<x + 1, y>>>> ELSE <<>>)
       \o (IF x - 1 >= 0 THEN <<<<x - 1, y>>>> ELSE <<>>)
       \o (IF y + 1 < GetDepth(w) THEN <<<<x, y + 1>>>> ELSE <<>>)
       \o (IF y - 1 >= 0 THEN <<<<x, y - 1>>>> ELSE <<>>)

Pending == [thrown |-> 0, tiles |-> <<<<-1, -1>>>>]

\* a grid, a tile of it and a distance to ask about
NeighborInit ==
    /\ asked \in {[w |-> SquareGrid(side), tile |-> t, distance |-> d] :
                    side \in 1..MaxSide, t \in (0..MaxSide - 1) \X (0..MaxSide - 1),
                    d \in 0..MaxDistance}
    /\ asked.tile \in Tiles(asked.w)
    /\ neighborTiles = Pending
    /\ edgeNeighborTiles = Pending
    /\ OnlyNeighbor

CallGetNeighborTiles ==
    /\ neighborTiles = Pending
    /\ neighborTiles' = QueryResult(asked.w, GetNeighborTiles(asked.w, asked.tile, asked.distance))
    /\ UNCHANGED <<besidesNeighbor, asked, edgeNeighborTiles>>

CallGetEdgeNeighborTiles ==
    /\ edgeNeighborTiles = Pending
    /\ edgeNeighborTiles' = QueryResult(asked.w, GetEdgeNeighborTiles(asked.w, asked.tile))
    /\ UNCHANGED <<besidesNeighbor, asked, neighborTiles>>

NeighborNext == CallGetNeighborTiles \/ CallGetEdgeNeighborTiles

SpecNeighbor == NeighborInit /\ [][NeighborNext]_neighborVars


\* ==================================================================
\* FireSpreadSimulation::CalculateFireSpreadProbability, called on its own
\* ==================================================================
\* a 2x2 world around the source tile (0,0): its three neighbours are alike
PairWorld(sourceVegetation, vegetation, moisture, height) ==
    MakeWorld(2, <<1, height, height, height>>, <<0, moisture, moisture, moisture>>,
              <<sourceVegetation, vegetation, vegetation, vegetation>>)

SourceVegetations == {"Grass", "Forest"}
MoistureInputs == {50, 66, 86, 100}
HeightInputs == {0, 1, 2}
FactorWindSpeeds == {0} \cup WindSpeeds
FactorWindDirections == WindDirections

NotCalculated == [done |-> 0, adjusted |-> FZero, spread |-> FZero]

FactorInit ==
    /\ pair \in {[w |-> PairWorld(sv, v, m, h), target |-> t, windSpeed |-> ws,
                  windDirection |-> wd] :
                    sv \in SourceVegetations, v \in VegetationType, m \in MoistureInputs,
                    h \in HeightInputs, t \in {<<0, 1>>, <<1, 0>>, <<1, 1>>},
                    ws \in FactorWindSpeeds, wd \in FactorWindDirections}
    /\ calculated = NotCalculated
    /\ OnlyFactor

\* CalculateFireSpreadProbability(source, target) for the source tile (0,0)
CallCalculateFireSpreadProbability ==
    /\ calculated = NotCalculated
    /\ LET adjustedProbability ==
               AdjustedProbability(pair.w, pair.windSpeed, pair.windDirection, <<0, 0>>,
                                   pair.target)
       IN calculated' =
              [done |-> 1,
               adjusted |-> adjustedProbability,
               spread |-> GetStepProbability(adjustedProbability,
                                             InitBurnTime(pair.w)[GetTileIndex(pair.w, <<0, 0>>)])]
    /\ UNCHANGED <<besidesFactor, pair>>

FactorNext == CallCalculateFireSpreadProbability

SpecFactor == FactorInit /\ [][FactorNext]_factorVars

\* ==================================================================
\* FireSpreadSimulation::GetWindFactor, called on its own
\* ==================================================================
\* wind speeds on both sides of the two speeds at which the cap is reached
WindSpeedSamples == {WindSpeedMin, 1, WindSpeedInitial, 16, 17, 33, 34, WindSpeedMax}
AllWindDirections == WindDirectionMin..WindDirectionMax

NoWindResult == [done |-> 0, directionDifference |-> 0, factor |-> FZero]

WindInit ==
    /\ windCase \in [windSpeed : WindSpeedSamples, windDirection : AllWindDirections,
                     target : Range(Offsets(1)) \ {<<0, 0>>}]
    /\ windResult = NoWindResult
    /\ OnlyWind

\* GetWindFactor(world, source, target, 1.0f) for the source tile (0,0)
CallGetWindFactor ==
    /\ windResult = NoWindResult
    /\ windResult' =
           [done |-> 1,
            directionDifference |->
                DirectionDifference(windCase.windDirection, <<0, 0>>, windCase.target),
            factor |-> GetWindFactor(windCase.windSpeed, windCase.windDirection, <<0, 0>>,
                                     windCase.target, FOne)]
    /\ UNCHANGED <<besidesWind, windCase>>

WindNext == CallGetWindFactor

SpecWind == WindInit /\ [][WindNext]_windVars

\* ==================================================================
\* RiverMapGenerator::Generate: the random walks of the rivers
\* ==================================================================
\* the walks are independent of each other: one river at a time
RiverCounts == {1}

\* the four values of direction that the switch of the walk handles
Directions == 0..3

\* the switch of the walk: forward tells whether rand() / RAND_MAX < 0.5f
Move(direction, px, py, forward) ==
    CASE direction = 0 -> IF forward THEN <<px + 1, py>> ELSE <<px, py + 1>>
      [] direction = 1 -> IF forward THEN <<px, py - 1>> ELSE <<px + 1, py>>
      [] direction = 2 -> IF forward THEN <<px - 1, py>> ELSE <<px, py - 1>>
      [] direction = 3 -> IF forward THEN <<px, py + 1>> ELSE <<px - 1, py>>
      [] OTHER -> <<px, py>>

\* a variant that lets the walk run on through lake cells
BreaksAtBoundaryOnly(lake, px, py) ==
    px < 0 \/ py < 0 \/ px >= lake.width \/ py >= lake.depth

\* the condition of the break that ends a walk
Breaks(lake, px, py) ==
    px < 0 \/ py < 0 \/ px >= lake.width \/ py >= lake.depth \/ GetData(lake, px, py, FALSE) = TRUE

NoWalk == [x |-> 0, y |-> 0, direction |-> 0, steps |-> 0, walking |-> 0]

RiverInit ==
    /\ riverLake \in LakeMaps
    /\ riverMask = MakeMap(GenWidth, GenDepth, FALSE)
    /\ rivers \in RiverCounts
    /\ started = 0
    /\ walk = NoWalk
    /\ occupied = {}
    /\ OnlyRiver

\* the head of the for loop: the start cell and the direction of a river
StartRiver ==
    /\ walk.walking = 0
    /\ started < rivers
    /\ \E riverStartX \in 0..riverLake.width - 1, riverStartY \in 0..riverLake.depth - 1,
          direction \in Directions :
          /\ walk' = [x |-> riverStartX, y |-> riverStartY, direction |-> direction,
                      steps |-> 0, walking |-> 1]
          /\ occupied' = occupied \cup {<<riverStartX, riverStartY>>}
    /\ started' = started + 1
    /\ UNCHANGED <<besidesRiver, riverLake, riverMask, rivers>>

\* one pass of the body of the while loop
WalkStep ==
    /\ walk.walking = 1
    /\ InMap(riverLake, walk.x, walk.y)
    /\ \E forward \in BOOLEAN :
          LET moved == Move(walk.direction, walk.x, walk.y, forward)
              stops == Breaks(riverLake, moved[1], moved[2])
          IN /\ walk' = [walk EXCEPT !.x = moved[1], !.y = moved[2], !.steps = @ + 1,
                                     !.walking = IF stops THEN 0 ELSE 1]
             /\ occupied' = IF stops THEN occupied ELSE occupied \cup {moved}
    /\ riverMask' = SetData(riverMask, walk.x, walk.y, TRUE)
    /\ UNCHANGED <<besidesRiver, riverLake, rivers, started>>

RiverNext == StartRiver \/ WalkStep

\* the loops of Generate run on until they end
SpecRiver == RiverInit /\ [][RiverNext]_riverVars /\ WF_riverVars(RiverNext)

\* ==================================================================
\* BaseTerrainGenerator::Generate
\* ==================================================================
MaxOctaves == 2

\* operator+ and operator* on float, for finite operands
Plus(a, b) == Minus(a, [b EXCEPT !.neg = IF b.mag[1] = 0 THEN 0 ELSE 1 - b.neg])
Times(a, b) == Rounded(IF a.neg = b.neg THEN 0 ELSE 1, FMul(a.mag, b.mag))

\* values of perlin(sampleX, sampleY): 0, 0.5, -0.5, 1
PerlinInputs == {Finite(0, FZero), Finite(0, Fl(1, -1)), Finite(1, Fl(1, -1)), Finite(0, FOne)}

\* perlin at each cell for each octave: the same value everywhere, or a
\* value that changes from cell to cell and from octave to octave
PerlinFields ==
    {[cell \in GenCells, i \in 0..MaxOctaves - 1 |-> v] : v \in PerlinInputs}
        \cup {[cell \in GenCells, i \in 0..MaxOctaves - 1 |->
                  IF (cell[1] + cell[2] + i) % 2 = 0 THEN Finite(0, Fl(1, -1))
                  ELSE Finite(1, Fl(1, -1))]}

\* persistence: the default 0.4f, and 1
PersistenceInputs == {Finite(0, Dec(4, 10)), Finite(0, FOne)}

\* a variant whose loop over the octaves runs once more
NoiseHeightOneMore(octaves, persistence, perlinAt) ==
    LET layer[i \in 0..octaves + 1] ==
            IF i = 0 THEN [noiseHeight |-> Finite(0, Dec(2, 10)), amplitude |-> Finite(0, Dec(13, 10))]
            ELSE [noiseHeight |-> Plus(layer[i - 1].noiseHeight,
                                       Times(perlinAt[0], layer[i - 1].amplitude)),
                  amplitude |-> Times(layer[i - 1].amplitude, persistence)]
    IN layer[octaves + 1].noiseHeight

\* noiseHeight of a cell after the loop over the octaves; perlinAt[i] is
\* the perlin value of octave i at the cell
NoiseHeight(octaves, persistence, perlinAt) ==
    LET layer[i \in 0..octaves] ==
            IF i = 0 THEN [noiseHeight |-> Finite(0, Dec(2, 10)), amplitude |-> Finite(0, Dec(13, 10))]
            ELSE [noiseHeight |-> Plus(layer[i - 1].noiseHeight,
                                       Times(perlinAt[i - 1], layer[i - 1].amplitude)),
                  amplitude |-> Times(layer[i - 1].amplitude, persistence)]
    IN layer[octaves].noiseHeight

TerrainInit ==
    /\ terrain \in [octaves : 0..MaxOctaves, persistence : PersistenceInputs,
                    perlin : PerlinFields]
    /\ terrainMap = MakeMap(GenWidth, GenDepth, Finite(0, FZero))
    /\ terrainStage = 0
    /\ OnlyTerrain

\* one pass of the body of the loops over x and y
SetNoiseHeight ==
    /\ terrainStage < terrainMap.width * terrainMap.depth
    /\ LET px == terrainStage \div terrainMap.depth
           py == terrainStage % terrainMap.depth
           perlinAt == [i \in 0..MaxOctaves - 1 |-> terrain.perlin[<<px, py>>, i]]
       IN terrainMap' = SetData(terrainMap, px, py,
                                NoiseHeight(terrain.octaves, terrain.persistence, perlinAt))
    /\ terrainStage' = terrainStage + 1
    /\ UNCHANGED <<besidesTerrain, terrain>>

\* map.Normalize() once the loops are over
NormalizeTerrain ==
    /\ terrainStage = terrainMap.width * terrainMap.depth
    /\ terrainMap' = Normalize(terrainMap)
    /\ terrainStage' = terrainStage + 1
    /\ UNCHANGED <<besidesTerrain, terrain>>

TerrainNext == SetNoiseHeight \/ NormalizeTerrain

SpecTerrain == TerrainInit /\ [][TerrainNext]_terrainVars

\* ==================================================================
\* Properties
\* ==================================================================
TileIndices == DOMAIN burnTime

IsWaterTile(tile) == world.moisture[tile] = 100

SumBurnTime ==
    LET sum[k \in 0..TotalTiles(world)] ==
            IF k = 0 THEN 0 ELSE sum[k - 1] + burnTime[k - 1]
    IN sum[TotalTiles(world)]

\* C1: the loop "Update while not HasEnded" stops after at most as many
\* Update calls as the sum of burnTime over all tiles: while the fire has
\* not ended, fewer Updates than that sum have run since Initialize.
C1_UpdatesBoundedByBurnTime == ~HasEnded => currentTime < SumBurnTime

\* a fire that used the whole bound: it ended at the step equal to the sum
C1_Witness ==
    /\ HasEnded
    /\ currentTime = SumBurnTime
    /\ GetLastChangedTiles # <<>>
    /\ \A k \in 0..currentTime - 1 : k \in DOMAIN changesOverTime

\* what an Update leaves alone once the fire has ended
IdleUpdateKeeps ==
    /\ HasEnded'
    /\ UNCHANGED <<isBurning, hasBurned, burningFor, burnTime, burningTiles,
                   prohibitedTiles, windSpeed, windDirection>>

\* C2 as stated: once HasEnded after at least one Update, a further Update
\* changes nothing observable, the last changed tiles included.
C2_IdleUpdateChangesNothing ==
    [][(HasEnded /\ currentTime > 0 /\ Update) =>
          (IdleUpdateKeeps /\ GetLastChangedTiles' = GetLastChangedTiles)]_vars

\* C2: once HasEnded after at least one Update, a further Update keeps
\* HasEnded true, changes no tile's fire state, keeps the burning list empty
\* and the prohibited list as it is; it advances the clock by one step, for
\* which no change set is recorded, so GetLastChangedTiles becomes empty.
C2_IdleUpdateOnlyAdvancesClock ==
    [][(HasEnded /\ currentTime > 0 /\ Update) =>
          /\ IdleUpdateKeeps
          /\ currentTime' = currentTime + 1
          /\ changesOverTime' = changesOverTime
          /\ GetLastChangedTiles' = <<>>]_vars

\* an Update has run after the end: the step before recorded changes, this
\* one recorded none
C2_Witness ==
    /\ HasEnded
    /\ currentTime >= 2
    /\ currentTime - 1 \in DOMAIN changesOverTime
    /\ currentTime \notin DOMAIN changesOverTime

\* C3 as stated: when no tile ignited by Initialize is water (moisture 100),
\* no change set of the run ever holds a water tile, whatever the draws.
C3_WaterNeverChanges ==
    (/\ 0 \in DOMAIN changesOverTime
     /\ \A tile \in Range(changesOverTime[0]) : ~IsWaterTile(tile))
    => \A k \in DOMAIN changesOverTime :
          \A tile \in Range(changesOverTime[k]) : ~IsWaterTile(tile)

\* C4 as stated: Initialize ignores a water tile of its list: the tile's
\* isBurning is left as it was, and the tile enters neither the burning list
\* nor the step-0 change set; the other tiles of the list are ignited.
C4_InitializeIgnoresWater ==
    [][\A startingTiles \in StartLists(world) : Initialize(startingTiles) =>
          \A j \in 1..Len(startingTiles) :
              LET tile == startingTiles[j]
                  tileIndex == GetTileIndex(world, tile)
              IN IF IsWaterTile(tile)
                   THEN /\ isBurning'[tileIndex] = isBurning[tileIndex]
                        /\ tile \notin Range(burningTiles')
                        /\ tile \notin Range(GetLastChangedTiles')
                   ELSE /\ isBurning'[tileIndex]
                        /\ tile \in Range(burningTiles')]_vars

\* C5 as stated: Reset puts every tile back to its initial fire state and
\* the wind back to its initial values.
C5_ResetRestoresFireState ==
    [][Reset =>
          /\ \A k \in TileIndices :
                ~isBurning'[k] /\ ~hasBurned'[k] /\ burningFor'[k] = 0
          /\ windSpeed' = WindSpeedInitial
          /\ windDirection' = WindDirectionInitial]_vars

\* C6: right after Reset, from every reachable state, HasEnded is true,
\* GetLastChangedTiles is empty, the clock is 0 and the change log is empty.
C6_ResetEndsAndClears ==
    [][Reset =>
          /\ HasEnded'
          /\ GetLastChangedTiles' = <<>>
          /\ currentTime' = 0
          /\ DOMAIN changesOverTime' = {}]_vars

\* a Reset taken in mid-fire: the lists are cleared although the world has
\* water and some tile still carries its burning flag
C6_Witness ==
    /\ HasEnded
    /\ currentTime = 0
    /\ DOMAIN changesOverTime = {}
    /\ prohibitedTiles = <<>>
    /\ SetProhibitedTiles(world) # <<>>
    /\ \E k \in TileIndices : isBurning[k] /\ burningFor[k] > 0

\* C7: HasEnded is true exactly when the burning list has no element; it is
\* true while no fire has been started (clock 0 and no step-0 change set).
C7_HasEndedIffNoBurningTiles ==
    /\ HasEnded <=> Len(burningTiles) = 0
    /\ (currentTime = 0 /\ 0 \notin DOMAIN changesOverTime) => HasEnded

\* the burning list is empty while a tile still carries its burning flag
C7_Witness ==
    /\ HasEnded
    /\ Len(burningTiles) = 0
    /\ \E k \in TileIndices : isBurning[k]

\* C8: Initialize(S) sets the clock to 0, leaves no change-log entry but the
\* one of step 0, makes the burning list S, sets isBurning of every tile of
\* S, and makes GetLastChangedTiles return S.
C8_InitializeStartsWithList ==
    [][\A startingTiles \in StartLists(world) : Initialize(startingTiles) =>
          /\ currentTime' = 0
          /\ DOMAIN changesOverTime' \subseteq {0}
          /\ burningTiles' = startingTiles
          /\ \A j \in 1..Len(startingTiles) :
                isBurning'[GetTileIndex(world, startingTiles[j])]
          /\ GetLastChangedTiles' = startingTiles]_vars

\* an Initialize with two tiles, taken after an earlier fire
C8_Witness ==
    /\ currentTime = 0
    /\ Len(burningTiles) = 2
    /\ GetLastChangedTiles = burningTiles
    /\ \E k \in TileIndices : hasBurned[k]

\* the steps of Update: it is the only operation that advances the clock
\* (Initialize and Reset set it to 0, the wind setters leave it alone)
UpdateStep == currentTime' = currentTime + 1

\* C9: after an Update the burning list holds exactly the tiles ignited by
\* this Update together with the tiles of the previous list whose burningFor,
\* once incremented, is below their burnTime; every tile in it is burning and
\* not burned, and none is in it twice.
C9_BurningListAfterUpdate ==
    [][UpdateStep =>
          LET ignited == {tile \in Tiles(world) :
                             /\ ~isBurning[GetTileIndex(world, tile)]
                             /\ isBurning'[GetTileIndex(world, tile)]}
              stillBurning == {tile \in Range(burningTiles) :
                                  burningFor[GetTileIndex(world, tile)] + 1
                                      < burnTime[GetTileIndex(world, tile)]}
          IN /\ Range(burningTiles') = ignited \cup stillBurning
             /\ IsDuplicateFree(burningTiles')
             /\ \A tile \in Range(burningTiles') :
                   /\ isBurning'[GetTileIndex(world, tile)]
                   /\ ~hasBurned'[GetTileIndex(world, tile)]]_vars

\* after an Update the list holds a tile that kept burning and one just ignited
C9_Witness ==
    /\ currentTime > 0
    /\ \E kept, fresh \in Range(burningTiles) :
          /\ burningFor[GetTileIndex(world, kept)] > 0
          /\ fresh \in Range(GetLastChangedTiles)

\* C10: after an Update GetLastChangedTiles holds exactly the tiles whose
\* isBurning or hasBurned flag this Update changed, each once; it is empty
\* when none changed, and a tile that only burned on is not in it.
C10_ChangedTilesAfterUpdate ==
    [][UpdateStep =>
          LET changed == {tile \in Tiles(world) :
                             \/ isBurning'[GetTileIndex(world, tile)]
                                   # isBurning[GetTileIndex(world, tile)]
                             \/ hasBurned'[GetTileIndex(world, tile)]
                                   # hasBurned[GetTileIndex(world, tile)]}
          IN /\ Range(GetLastChangedTiles') = changed
             /\ IsDuplicateFree(GetLastChangedTiles')]_vars

\* after an Update the change set holds an ignited and a burned-out tile
\* while a tile that burned on is left out of it
C10_Witness ==
    /\ currentTime > 0
    /\ \E tile \in Range(GetLastChangedTiles) : isBurning[GetTileIndex(world, tile)]
    /\ \E tile \in Range(GetLastChangedTiles) : hasBurned[GetTileIndex(world, tile)]
    /\ \E tile \in Range(burningTiles) :
          /\ burningFor[GetTileIndex(world, tile)] > 0
          /\ tile \notin Range(GetLastChangedTiles)

\* C11: GetChangedTileColors has exactly one entry per tile of
\* GetLastChangedTiles, keyed by x * side + y (distinct tiles get distinct
\* keys, all below the number of tiles); the entry is RGB(255,105,105) for a
\* burning tile and RGB(180,50,50) for a burned one.
C11_ChangedTileColors ==
    LET colors == GetChangedTileColors
        key(tile) == tile[1] * world.side + tile[2]
    IN /\ DOMAIN colors = {key(tile) : tile \in Range(GetLastChangedTiles)}
       /\ Cardinality(DOMAIN colors) = Len(GetLastChangedTiles)
       /\ \A k \in DOMAIN colors : k < GetWidth(world) * GetDepth(world)
       /\ \A tile \in Range(GetLastChangedTiles) :
             /\ isBurning[key(tile)] => colors[key(tile)] = <<255, 105, 105>>
             /\ ~isBurning[key(tile)] =>
                   hasBurned[key(tile)] /\ colors[key(tile)] = <<180, 50, 50>>

\* a change set with a burning tile and a burned tile, both coloured
C11_Witness ==
    /\ currentTime > 0
    /\ \E a, b \in Range(GetLastChangedTiles) :
          /\ GetChangedTileColors[GetTileIndex(world, a)] = BurningColor
          /\ GetChangedTileColors[GetTileIndex(world, b)] = BurnedColor

\* C12: right after construction GetProhibitedTiles holds every tile with
\* moisture 100, no other tile, and each tile once; no step of Initialize or
\* Update changes it.
C12_ProhibitedTilesAreWater ==
    /\ [](Init => /\ Range(GetProhibitedTiles) = {tile \in Tiles(world) : IsWaterTile(tile)}
                  /\ IsDuplicateFree(GetProhibitedTiles))
    /\ [][\/ prohibitedTiles' = prohibitedTiles
          \/ ~(UpdateStep \/ \E startingTiles \in StartLists(world) :
                                 Initialize(startingTiles))]_vars

\* a fire running in a world with water, the prohibited list still in place
C12_Witness ==
    /\ currentTime > 0
    /\ ~HasEnded
    /\ GetProhibitedTiles # <<>>
    /\ Range(GetProhibitedTiles) = {tile \in Tiles(world) : IsWaterTile(tile)}

\* C13: every cell of the moisture map is in 0..100 at every step of the
\* scan of MoistureMapGenerator::Generate, whatever the lake mask, the river
\* mask and the noise; so is what GetData hands to the tile of any position.
C13_MoistureInRange ==
    /\ \A cell \in DOMAIN moistureMap.data :
          moistureMap.data[cell] >= 0 /\ moistureMap.data[cell] <= 100
    /\ \A px \in -1..moistureMap.width, py \in -1..moistureMap.depth :
          GetData(moistureMap, px, py, 0) \in 0..100

\* the scan is over; a dry cell that the noise had filled to 100 was reached
\* by the moisture of a water cell scanned after it, and a cell is at 50
C13_Witness ==
    /\ scanned = moistureMap.width * moistureMap.depth
    /\ \E dry, water \in DOMAIN moistureMap.data :
          /\ ~lakeMap.data[dry] /\ ~riverMap.data[dry]
          /\ lakeMap.data[water] \/ riverMap.data[water]
          /\ dry[1] * moistureMap.depth + dry[2] < water[1] * moistureMap.depth + water[2]
          /\ Abs(dry[1] - water[1]) + Abs(dry[2] - water[2]) = 1
          /\ noiseField[dry] = 1000
          /\ moistureMap.data[dry] = 100
    /\ \E cell \in DOMAIN moistureMap.data : moistureMap.data[cell] = 50

\* the value SetValue is to store for v under the bounds of a parameter
Clamped(parameter, v) ==
    IF v < parameter.minValue THEN parameter.minValue
    ELSE IF v > parameter.maxValue THEN parameter.maxValue
    ELSE v

\* every stored value is within the bounds of its parameter
StoredValuesInRange ==
    /\ \A n \in DOMAIN singleParameters :
          /\ singleParameters[n].minValue <= singleParameters[n].value
          /\ singleParameters[n].value <= singleParameters[n].maxValue
    /\ \A n \in DOMAIN vectorParameters :
          \A k \in DOMAIN vectorParameters[n].values :
             /\ vectorParameters[n].minValue <= vectorParameters[n].values[k]
             /\ vectorParameters[n].values[k] <= vectorParameters[n].maxValue

\* a step of SetValue stores the clamped value, at the index given only
SetValueStoresClamped ==
    /\ \A n \in DOMAIN singleParameters :
          \A v \in ValueInputs(singleParameters[n].type) :
             SetValue(n, v) =>
                singleParameters'[n].value = Clamped(singleParameters[n], v)
    /\ \A n \in DOMAIN vectorParameters :
          \A k \in DOMAIN vectorParameters[n].values :
             \A v \in ValueInputs(vectorParameters[n].type) :
                SetVectorValue(n, k, v) =>
                   /\ vectorParameters'[n].values[k] = Clamped(vectorParameters[n], v)
                   /\ \A j \in DOMAIN vectorParameters[n].values \ {k} :
                         vectorParameters'[n].values[j] = vectorParameters[n].values[j]

\* C14: SetValue stores v when v is within [min,max], min when v is below
\* and max when v is above, for a scalar parameter and for every index of a
\* vector parameter; so every stored value is within [min,max] after any
\* sequence of SetValue and Reset calls.
C14_SetValueClamps == []StoredValuesInRange /\ [][SetValueStoresClamped]_containerVars

\* a scalar sits at its minimum and a vector element at its maximum, both
\* away from their initial values
C14_Witness ==
    /\ \E n \in DOMAIN singleParameters :
          /\ singleParameters[n].value = singleParameters[n].minValue
          /\ singleParameters[n].value # singleParameters[n].initialValue
    /\ \E n \in DOMAIN vectorParameters :
          \E k \in DOMAIN vectorParameters[n].values :
             /\ vectorParameters[n].values[k] = vectorParameters[n].maxValue
             /\ vectorParameters[n].values[k] # vectorParameters[n].initialValue

\* every scalar and every element of every vector holds its initial value
AllAtInitialValue(single, vector) ==
    /\ \A n \in DOMAIN single : single[n].value = single[n].initialValue
    /\ \A n \in DOMAIN vector :
          \A k \in DOMAIN vector[n].values :
             vector[n].values[k] = vector[n].initialValue

\* C15: Reset on a parameter restores its construction-time initial value,
\* for a vector parameter in every element, and ResetParameters resets every
\* parameter stored in the container, scalar and vector alike.
C15_ResetRestoresInitialValues ==
    [][/\ \A n \in DOMAIN singleParameters :
             ResetParameter(n) =>
                singleParameters'[n].value = singleParameters[n].initialValue
       /\ \A n \in DOMAIN vectorParameters :
             ResetVectorParameter(n) =>
                \A k \in DOMAIN vectorParameters[n].values :
                   vectorParameters'[n].values[k] = vectorParameters[n].initialValue
       /\ ResetParameters =>
             AllAtInitialValue(singleParameters', vectorParameters')]_containerVars

\* C20: GetParameter<T>(name) and GetVectorParameter<T>(name) return null
\* both when no parameter is stored under name and when the parameter stored
\* under name has a type other than T.
C20_BadLookupReturnsNull ==
    [][\A name \in LookupNames, type \in ParameterTypes :
          /\ (/\ GetParameter(name, type)
              /\ \/ name \notin DOMAIN singleParameters
                 \/ singleParameters[name].type # type)
                => lookup' = Null
          /\ (/\ GetVectorParameter(name, type)
              /\ \/ name \notin DOMAIN vectorParameters
                 \/ vectorParameters[name].type # type)
                => lookup' = Null]_containerVars

\* C19: GetTileAt(x,y) and SetTileAt(x,y,t) throw std::out_of_range whenever
\* x < 0, x >= width, y < 0 or y >= depth, and then leave the grid unchanged;
\* for coordinates within the grid GetTileAt returns the tile last stored
\* at (x,y).
C19_GridAccessIsChecked ==
    [][\A x \in XInputs, y \in YInputs :
          /\ GetTileAt(x, y) =>
                IF x < 0 \/ x >= GridWidth \/ y < 0 \/ y >= GridDepth
                  THEN result'.ends = "out_of_range" /\ grid' = grid
                  ELSE result' = Returns("GetTileAt", grid[<<x, y>>]) /\ grid' = grid
          /\ SetTileAt(x, y) =>
                IF x < 0 \/ x >= GridWidth \/ y < 0 \/ y >= GridDepth
                  THEN result'.ends = "out_of_range" /\ grid' = grid
                  ELSE /\ result'.ends = "returns"
                       /\ grid'[<<x, y>>] = allocated'
                       /\ \A cell \in GridCells \ {<<x, y>>} :
                             grid'[cell] = grid[cell]]_gridVars

\* a cell was stored twice (its first tile is deleted), another cell once,
\* and GetTileAt has just returned the second tile of the first cell
C19_Witness ==
    /\ result.call = "GetTileAt"
    /\ result.ends = "returns"
    /\ result.tile = 3
    /\ grid[<<0, 1>>] = 3
    /\ grid[<<1, 0>>] = 2
    /\ deleted = {1}

Zero == Finite(0, FZero)
One == Finite(0, FOne)

IsConstantMap(m) == \A c, d \in DOMAIN m.data : m.data[c] = m.data[d]
IsFiniteMap(m) == \A c \in DOMAIN m.data : m.data[c].kind = "finite"
HasMinimum(m, v) ==
    /\ \E c \in DOMAIN m.data : m.data[c] = v
    /\ \A c \in DOMAIN m.data : m.data[c].kind = "finite" /\ ~Less(m.data[c], v)
HasMaximum(m, v) ==
    /\ \E c \in DOMAIN m.data : m.data[c] = v
    /\ \A c \in DOMAIN m.data : m.data[c].kind = "finite" /\ ~Less(v, m.data[c])

\* the map has cells and the difference of its largest and smallest value
\* is a finite float
HasFiniteRange(m) ==
    /\ DOMAIN m.data # {}
    /\ Minus(FindMax(m, m.width * m.depth), FindMin(m, m.width * m.depth)).kind = "finite"

\* what a call of Normalize leaves alone, and that a second call changes nothing
NormalizeKeeps ==
    /\ (HasMinimum(floatMap, Zero) /\ HasMaximum(floatMap, One)) => floatMap' = floatMap
    /\ IsConstantMap(floatMap) => floatMap' = floatMap
    /\ Normalize(floatMap') = floatMap'

\* the call yields values in [0,1] with minimum 0 and maximum 1
NormalizeRescales ==
    /\ HasMinimum(floatMap', Zero)
    /\ HasMaximum(floatMap', One)

\* C18 as stated: Normalize changes no cell of a map whose minimum is 0 and
\* maximum is 1, nor of a constant or empty map; applied to any non-constant
\* map (of finite values) it yields values in [0,1] with minimum 0 and
\* maximum 1; so Normalize(Normalize(m)) = Normalize(m).
C18_NormalizeAnyMap ==
    [][NormalizeCall =>
          /\ NormalizeKeeps
          /\ (IsFiniteMap(floatMap) /\ ~IsConstantMap(floatMap))
                => NormalizeRescales]_normalizeVars

\* C18 amended: the same, with the rescaling into [0,1] stated for the
\* non-constant maps whose range max - min is a finite float.
C18_NormalizeFiniteRange ==
    [][NormalizeCall =>
          /\ NormalizeKeeps
          /\ (IsFiniteMap(floatMap) /\ ~IsConstantMap(floatMap) /\ HasFiniteRange(floatMap))
                => NormalizeRescales]_normalizeVars

\* a map with a negative cell and three distinct values has been normalised
\* twice: it holds 0, 1 and a value strictly between
C18_Witness ==
    /\ normalized = 2
    /\ HasMinimum(floatMap, Zero)
    /\ HasMaximum(floatMap, One)
    /\ \E c \in DOMAIN floatMap.data :
          Less(Zero, floatMap.data[c]) /\ Less(floatMap.data[c], One)

\* two different tiles at most one step apart in x and in y
IsNeighbor(a, b) == a # b /\ Abs(a[1] - b[1]) <= 1 /\ Abs(a[2] - b[2]) <= 1

\* every draw 0: an Update ignites every unburned neighbour of every tile
\* burning at its start
IgnitesEveryNeighbor ==
    \A tile \in Tiles(world), neighbor \in Tiles(world) :
       (/\ isBurning[GetTileIndex(world, tile)]
        /\ IsNeighbor(tile, neighbor)
        /\ ~isBurning[GetTileIndex(world, neighbor)]
        /\ ~hasBurned[GetTileIndex(world, neighbor)])
          => isBurning'[GetTileIndex(world, neighbor)]

Centre == <<1, 1>>

\* the 3x3 grass world with the centre burning and the 8 others untouched
CentreBurning ==
    /\ world = Grass3World
    /\ \A tile \in Tiles(world) :
          /\ isBurning[GetTileIndex(world, tile)] = (tile = Centre)
          /\ ~hasBurned[GetTileIndex(world, tile)]

\* the centre burned out and the 8 others burning
NeighborsBurning ==
    /\ world = Grass3World
    /\ \A tile \in Tiles(world) :
          /\ isBurning[GetTileIndex(world, tile)] = (tile # Centre)
          /\ hasBurned[GetTileIndex(world, tile)] = (tile = Centre)

AllBurned ==
    /\ world = Grass3World
    /\ \A tile \in Tiles(world) :
          ~isBurning[GetTileIndex(world, tile)] /\ hasBurned[GetTileIndex(world, tile)]

\* C16: with every ignition draw 0 and no tile of moisture 100, each Update
\* ignites every unburned 8-connected neighbour of every tile burning at
\* its start; in the 3x3 grass world with the centre ignited the first
\* Update leaves the centre burned and the 8 neighbours burning, the second
\* leaves all 9 tiles burned and HasEnded() true.
C16_StubbedDrawsIgniteAllNeighbors ==
    [][UpdateStep =>
          /\ IgnitesEveryNeighbor
          /\ CentreBurning => NeighborsBurning'
          /\ NeighborsBurning => (AllBurned' /\ HasEnded')]_vars

\* the second Update of the scenario has run
C16_Witness ==
    /\ AllBurned
    /\ HasEnded
    /\ currentTime = 2
    /\ changesOverTime[0] = <<Centre>>
    /\ Len(changesOverTime[1]) = 9
    /\ Len(changesOverTime[2]) = 8

\* 1e-6 in the format of the model: 1e-6 is 16.8 * 2^-24, sixteen units of
\* the last place of a float below 1
Tolerance == Fl(1, 4 - MantBits)

\* |a - b|
Distance(a, b) == IF FLess(a, b) THEN FSub(b, a) ELSE FSub(a, b)

\* 1 - (1 - p)^steps for the p returned
RoundTrip(p, steps) == FSub(FOne, FPow(FSub(FOne, p), steps))

C21_NoStepsNoProbability ==
    (returned # <<>> /\ updateSteps <= 0) => returned[1] = FZero

\* the steps whose change set holds the tile
ChangeSteps(tile) ==
    {t \in DOMAIN changesOverTime : tile \in Range(changesOverTime[t])}

LifeAt(burning, burned, k) ==
    IF burning[k] /\ burned[k] THEN "BurningAndBurned"
    ELSE IF burning[k] THEN "Burning"
    ELSE IF burned[k] THEN "Burned"
    ELSE "Unburned"

\* the moves an Update may make: a tile stays, is ignited, or burns out
LifecycleMoves ==
    {<<"Unburned", "Unburned">>, <<"Unburned", "Burning">>, <<"Burning", "Burning">>,
     <<"Burning", "Burned">>, <<"Burned", "Burned">>}

\* how often the tile is entered in the change sets of the run
TimesChanged(tile) ==
    Cardinality({e \in UNION {{<<t, j>> : j \in 1..Len(changesOverTime[t])} :
                                 t \in DOMAIN changesOverTime} :
                    changesOverTime[e[1]][e[2]] = tile})

\* an ignition or burn-out is entered once: a burning tile has one entry
\* (its ignition), a burned tile two, an unburned tile none
ChangedOncePerMove ==
    \A tile \in Tiles(world) :
       TimesChanged(tile) =
          CASE LifeAt(isBurning, hasBurned, GetTileIndex(world, tile)) = "Unburned" -> 0
            [] LifeAt(isBurning, hasBurned, GetTileIndex(world, tile)) = "Burning" -> 1
            [] OTHER -> 2

UpdateMovesForward ==
    UpdateStep =>
       \A k \in TileIndices :
          <<LifeAt(isBurning, hasBurned, k), LifeAt(isBurning', hasBurned', k)>>
              \in LifecycleMoves

\* C23: under Update a tile only moves Unburned -> Burning -> Burned; no
\* Update ignites a tile that is burning or burned, a tile that burned out
\* or was ignited earlier in the same pass included, so in a run each tile
\* ignites at most once.
C23_LifecycleIsMonotonic == []ChangedOncePerMove /\ [][UpdateMovesForward]_vars

\* two tiles burning side by side shared unburned neighbours in one pass:
\* both burned out, their neighbours were ignited once each
C23_Witness ==
    /\ world = GrassWorld
    /\ currentTime = 1
    /\ DOMAIN changesOverTime = {0, 1}
    /\ Len(changesOverTime[0]) = 2
    /\ Len(changesOverTime[1]) = 4
    /\ \A tile \in Range(changesOverTime[0]) : hasBurned[GetTileIndex(world, tile)]
    /\ \A tile \in Tiles(world) \ Range(changesOverTime[0]) :
          isBurning[GetTileIndex(world, tile)]

\* C24: the burnTime of every tile is the one of its vegetation (Grass 1,
\* Sparse 2, Swamp 3, Forest 4), so it is in 1..4, from construction on
\* through Initialize and every Update of a run, whatever has burned.
C24_BurnTimeFromVegetation ==
    \A tile \in Tiles(world) :
        LET k == GetTileIndex(world, tile)
            vegetation == world.vegetation[tile]
        IN /\ vegetation = "Grass" => burnTime[k] = 1
           /\ vegetation = "Sparse" => burnTime[k] = 2
           /\ vegetation = "Swamp" => burnTime[k] = 3
           /\ vegetation = "Forest" => burnTime[k] = 4
           /\ burnTime[k] \in 1..4

\* a world with two vegetations, after an Initialize and two Updates that
\* burned the sparse tile out
C24_Witness ==
    /\ world = MixedWorld
    /\ currentTime = 2
    /\ hasBurned[GetTileIndex(world, <<0, 1>>)]
    /\ burnTime[GetTileIndex(world, <<0, 1>>)] = 2
    /\ burnTime[GetTileIndex(world, <<1, 0>>)] = 1

BurningOrBeside(tile) ==
    \E j \in 1..Len(burningTiles) :
        /\ burningTiles[j][1] - tile[1] \in -1..1
        /\ burningTiles[j][2] - tile[2] \in -1..1

\* the step writes a parameter value of the tile
FireStateWritten(tile) ==
    LET k == GetTileIndex(world, tile)
    IN \/ isBurning'[k] # isBurning[k]
       \/ hasBurned'[k] # hasBurned[k]
       \/ burningFor'[k] # burningFor[k]

\* C26: no step of Initialize, Update or Reset changes a tile's height,
\* moisture, vegetation or position or the set of tiles; an Update also
\* leaves windSpeed and windDirection as they are and changes isBurning,
\* hasBurned and burningFor only for tiles that are in the burning list or
\* next to a tile of it.
C26_FrameOfTheSimulation ==
    [][/\ world' = world
       /\ DOMAIN isBurning' = DOMAIN isBurning
       /\ DOMAIN hasBurned' = DOMAIN hasBurned
       /\ DOMAIN burningFor' = DOMAIN burningFor
       /\ UpdateStep =>
             /\ windSpeed' = windSpeed
             /\ windDirection' = windDirection
             /\ \A tile \in Tiles(world) : FireStateWritten(tile) => BurningOrBeside(tile)]_vars

\* in the 3x3 world with the wind set, after a Reset: the corner (0,0) has
\* burned, the centre burns, and the far corner (2,2) is untouched
C26_Witness ==
    /\ world = DiagonalWorld
    /\ windSpeed = WindSpeedMax
    /\ GetProhibitedTiles = <<>>
    /\ currentTime = 1
    /\ hasBurned[GetTileIndex(world, <<0, 0>>)]
    /\ burningTiles = <<<<1, 1>>>>
    /\ ~isBurning[GetTileIndex(world, <<2, 2>>)]
    /\ ~hasBurned[GetTileIndex(world, <<2, 2>>)]

\* C27: an Update of the simulation that keeps the fire state in the tiles'
\* own parameters, meeting a tile that lacks a required parameter, skips
\* that tile and goes on: the program is never left crashed or in an
\* undefined state.
C27_MissingParameterIsSkipped == perTileOutcome = "running"

\* the tiles next to a tile, by ascending x and then ascending y
NeighborsInOrder(tile) ==
    LET IsNext(t) == /\ t # tile
                     /\ t[1] - tile[1] \in -1..1
                     /\ t[2] - tile[2] \in -1..1
    IN SelectSeq(GridOrder(TwinWorld), IsNext)

\* the tiles an Update comes to, in turn: for each tile of the burning list,
\* from its front, the neighbours of the tile and then the tile
RECURSIVE VisitOrder(_, _)
VisitOrder(list, k) ==
    IF k > Len(list) THEN <<>>
    ELSE NeighborsInOrder(list[k]) \o <<list[k]>> \o VisitOrder(list, k + 1)

\* s is t with elements left out
RECURSIVE IsSubSeq(_, _)
IsSubSeq(s, t) ==
    IF s = <<>> THEN TRUE
    ELSE IF t = <<>> THEN FALSE
    ELSE IF Head(s) = Head(t) THEN IsSubSeq(Tail(s), Tail(t))
    ELSE IsSubSeq(s, Tail(t))

\* an Update lists the tiles it ignites, keeps burning or burns out in the
\* order in which it comes to them
ListsFollowVisitOrder ==
    first'.currentTime = first.currentTime + 1 =>
        LET visited == VisitOrder(first.burningTiles, 1)
            changed == IF first'.currentTime \in DOMAIN first'.changesOverTime
                         THEN first'.changesOverTime[first'.currentTime] ELSE <<>>
        IN /\ IsSubSeq(first'.burningTiles, visited)
           /\ IsSubSeq(changed, visited)

Chebyshev(a, b) == Max(Abs(a[1] - b[1]), Abs(a[2] - b[2]))
Manhattan(a, b) == Abs(a[1] - b[1]) + Abs(a[2] - b[2])

\* the number of sides of the grid the tile lies on
BordersTouched(w, tile) ==
    Cardinality({side \in {"x0", "x1", "y0", "y1"} :
                    \/ side = "x0" /\ tile[1] = 0
                    \/ side = "x1" /\ tile[1] = GetWidth(w) - 1
                    \/ side = "y0" /\ tile[2] = 0
                    \/ side = "y1" /\ tile[2] = GetDepth(w) - 1})

\* a corner tile lies on two sides of the grid that meet, an edge tile on
\* one side, an interior tile on none
IsCorner(w, tile) ==
    /\ BordersTouched(w, tile) = 2
    /\ tile[1] \in {0, GetWidth(w) - 1}
    /\ tile[2] \in {0, GetDepth(w) - 1}
IsEdge(w, tile) == BordersTouched(w, tile) = 1
IsInterior(w, tile) == BordersTouched(w, tile) = 0

\* C29, GetNeighborTiles(tile, d): it returns the tiles of the grid at
\* Chebyshev distance 1..d from the tile, each once, never the tile; for
\* d = 1 that is 3 tiles for a corner, 5 for an edge, 8 for an interior
\* tile; no GetTileAt of it throws; a tile is among the neighbours of
\* another exactly when the other is among its own.
NeighborTilesExact ==
    neighborTiles # Pending =>
        LET w == asked.w
            found == neighborTiles.tiles
        IN /\ neighborTiles.thrown = 0
           /\ Range(found) = {t \in Tiles(w) : Chebyshev(t, asked.tile) \in 1..asked.distance}
           /\ IsDuplicateFree(found)
           /\ asked.tile \notin Range(found)
           /\ asked.distance = 1 =>
                 /\ IsCorner(w, asked.tile) => Len(found) = 3
                 /\ IsEdge(w, asked.tile) => Len(found) = 5
                 /\ IsInterior(w, asked.tile) => Len(found) = 8
           /\ \A t \in Tiles(w) :
                 t \in Range(found) <=>
                     asked.tile \in Range(GetNeighborTiles(w, t, asked.distance))

\* C29, GetEdgeNeighborTiles(tile): it returns the tiles of the grid at
\* Manhattan distance 1 from the tile, each once; no GetTileAt of it
\* throws; the relation is symmetric.
EdgeNeighborTilesExact ==
    edgeNeighborTiles # Pending =>
        LET w == asked.w
            found == edgeNeighborTiles.tiles
        IN /\ edgeNeighborTiles.thrown = 0
           /\ Range(found) = {t \in Tiles(w) : Manhattan(t, asked.tile) = 1}
           /\ IsDuplicateFree(found)
           /\ \A t \in Tiles(w) :
                 t \in Range(found) <=> asked.tile \in Range(GetEdgeNeighborTiles(w, t))

\* C29: both neighbour queries return exactly the tiles their distance
\* names, without an out-of-range error, and symmetrically.
C29_NeighborQueriesExact == NeighborTilesExact /\ EdgeNeighborTilesExact

\* both queries answered for the centre of a 3x3 grid at distance 1: eight
\* neighbours, four of them across an edge
C29_Witness ==
    /\ asked = [w |-> SquareGrid(3), tile |-> <<1, 1>>, distance |-> 1]
    /\ neighborTiles # Pending
    /\ Len(neighborTiles.tiles) = 8
    /\ edgeNeighborTiles # Pending
    /\ edgeNeighborTiles.tiles = <<<<2, 1>>, <<0, 1>>, <<1, 2>>, <<1, 0>>>>

\* a value of the float format, at most 1, in millionths (rounded down)
Millionths(f) == IF f[1] = 0 THEN 0 ELSE (f[1] * 1000000) \div 2^(-f[2])

\* the factors of the formula, in hundredths (veg, slope, moist) and in
\* thousandths (wind: 1, raised by 0.03 or 0.015 per unit of wind speed
\* when the wind blows towards the target, 1.5 at most)
VegetationHundredths(vegetation) ==
    CASE vegetation = "Grass" -> 18
      [] vegetation = "Sparse" -> 25
      [] vegetation = "Swamp" -> 22
      [] vegetation = "Forest" -> 40

SlopeHundredths(targetHeight, sourceHeight) == IF targetHeight >= sourceHeight THEN 35 ELSE 25

MoistureHundredths(moisture) ==
    IF moisture = 100 THEN 0
    ELSE IF moisture > 85 THEN 50
    ELSE IF moisture > 65 THEN 70
    ELSE 88

WindThousandths(ws, wd, source, target) ==
    LET turn == Abs(wd - AngleToTarget(target[1] - source[1], target[2] - source[2]))
        difference == IF turn > 180 THEN 360 - turn ELSE turn
    IN IF difference <= 45 THEN Min(1000 + 30 * ws, 1500)
       ELSE IF difference <= 90 THEN Min(1000 + 15 * ws, 1500)
       ELSE 1000

\* ((veg(target) + slope) / 2) * moist(target) * wind, in millionths
FormulaMillionths ==
    ((VegetationHundredths(pair.w.vegetation[pair.target])
        + SlopeHundredths(pair.w.height[pair.target], pair.w.height[<<0, 0>>]))
       * MoistureHundredths(pair.w.moisture[pair.target])
       * WindThousandths(pair.windSpeed, pair.windDirection, <<0, 0>>, pair.target)) \div 20

\* the rounding of the float format on a value of v millionths: the factors
\* and every operation on them are rounded to MantBits bits
RoundingOn(v) == v \div 2^(MantBits - 3) + 1

\* C30: the probability before rebasing is ((veg(target) + slope) / 2) *
\* moist(target) * wind with veg 0.18 / 0.25 / 0.22 / 0.40, slope 0.35 up
\* or level and 0.25 down, moist 0 / 0.5 / 0.7 / 0.88, up to the rounding
\* of the float format; the formula's value is in [0, 0.495] for every
\* pair of tiles and wind, and the per-step probability is in [0, 1].
C30_AdjustedProbabilityInRange ==
    calculated.done = 1 =>
        /\ Abs(Millionths(calculated.adjusted) - FormulaMillionths)
               <= RoundingOn(FormulaMillionths)
        /\ FormulaMillionths \in 0..495000
        /\ Millionths(calculated.adjusted) <= 495000 + RoundingOn(495000)
        /\ FLeq(FZero, calculated.adjusted)
        /\ FLeq(FZero, calculated.spread)
        /\ FLeq(calculated.spread, FOne)

\* the largest case: a dry forest tile, not lower than the source, with the
\* strongest wind blowing at it
C30_Witness ==
    /\ calculated.done = 1
    /\ pair.w.vegetation[pair.target] = "Forest"
    /\ pair.w.moisture[pair.target] = 50
    /\ pair.w.height[pair.target] = 1
    /\ pair.windSpeed = WindSpeedMax
    /\ pair.windDirection = 0
    /\ pair.target = <<1, 0>>
    /\ FormulaMillionths = 495000
    /\ FLess(FZero, calculated.spread)

\* the bearing of a neighbour offset: 45 degrees per step counterclockwise
\* from the offset (1, 0)
Compass ==
    <<<<1, 0>>, <<1, 1>>, <<0, 1>>, <<-1, 1>>, <<-1, 0>>, <<-1, -1>>, <<0, -1>>, <<1, -1>>>>
Bearing(offset) == 45 * ((CHOOSE k \in 1..8 : Compass[k] = offset) - 1)

\* the angle between a wind direction and a bearing, the shorter way round
Folded(wd, bearing) == Min((wd - bearing) % 360, (bearing - wd) % 360)

\* C31: for each of the 8 neighbour offsets, every wind direction in 0..360
\* and every wind speed, the difference GetWindFactor works with is the
\* angle between the wind direction and the bearing of the offset, folded
\* into 0..180; the factor is min(1.5, 1 + 0.03 * windSpeed) when that is
\* at most 45, min(1.5, 1 + 0.015 * windSpeed) when it is at most 90 (both
\* up to the rounding of the float format) and exactly 1 otherwise; it is
\* in [1, 1.5], and wind direction 360 gives the factor of direction 0.
C31_WindFactorByDirection ==
    windResult.done = 1 =>
        LET difference == Folded(windCase.windDirection, Bearing(windCase.target))
            thousandths == IF difference <= 45 THEN Min(1500, 1000 + 30 * windCase.windSpeed)
                           ELSE IF difference <= 90
                             THEN Min(1500, 1000 + 15 * windCase.windSpeed)
                           ELSE 1000
        IN /\ windResult.directionDifference = difference
           /\ difference \in 0..180
           /\ Abs(Millionths(windResult.factor) - 1000 * thousandths)
                  <= RoundingOn(1000 * thousandths)
           /\ difference > 90 => windResult.factor = FOne
           /\ windCase.windSpeed = 0 => windResult.factor = FOne
           /\ FLeq(FOne, windResult.factor)
           /\ FLeq(windResult.factor, Dec(15, 10))
           /\ windCase.windDirection = WindDirectionMax =>
                  windResult.factor = GetWindFactor(windCase.windSpeed, WindDirectionMin,
                                                    <<0, 0>>, windCase.target, FOne)

\* wind direction 360 blowing at the offset (1, -1), bearing 315: the
\* difference 45 is found by folding, and the wind raises the factor
C31_Witness ==
    /\ windResult.done = 1
    /\ windCase.windDirection = WindDirectionMax
    /\ windCase.target = <<1, -1>>
    /\ windCase.windSpeed = WindSpeedInitial
    /\ windResult.directionDifference = 45
    /\ FLess(FOne, windResult.factor)
    /\ FLess(windResult.factor, Dec(15, 10))

\* the cell a walk is at
WalkCell == <<walk.x, walk.y>>
IsLakeCell(cell) == cell \in DOMAIN riverLake.data /\ riverLake.data[cell]

\* a walk takes at most width + depth steps; while it goes on it is on a
\* cell of the grid, and after its first step not on a lake cell; once
\* over, it has left the grid or entered a lake cell, and the cells marked
\* in the river mask are the cells the walks stood on while going on
WalkIsBounded ==
    started > 0 =>
        /\ walk.steps <= riverLake.width + riverLake.depth
        /\ walk.walking = 1 =>
              /\ WalkCell \in DOMAIN riverLake.data
              /\ walk.steps > 0 => ~IsLakeCell(WalkCell)
        /\ walk.walking = 0 =>
              /\ walk.steps >= 1
              /\ WalkCell \notin DOMAIN riverLake.data \/ IsLakeCell(WalkCell)
              /\ \A cell \in DOMAIN riverMask.data :
                    riverMask.data[cell] = (cell \in occupied)

\* C32: every river walk ends: from any start cell and any of the 4
\* directions, whatever the random choices, the walk leaves the grid or
\* enters a lake cell after at most width + depth steps; the cells marked
\* in the river mask are exactly the cells of the grid the walks were on
\* before they stopped, the start cells included (the lake cell that stops
\* a walk is not marked by it).
C32_RiverWalkTerminates ==
    /\ []WalkIsBounded
    /\ (walk.walking = 1) ~> (walk.walking = 0)

\* a walk that started on a lake cell has been stopped by another lake
\* cell after two steps; that lake cell is not marked, the first one is
C32_Witness ==
    /\ started = 1
    /\ walk.walking = 0
    /\ walk.steps = 2
    /\ IsLakeCell(WalkCell)
    /\ ~riverMask.data[WalkCell]
    /\ Cardinality(occupied) = 2
    /\ \E cell \in occupied : IsLakeCell(cell) /\ riverMask.data[cell]

\* the cells of the generated map, and its water cells
MoistureCells == DOMAIN moistureMap.data
IsWaterCell(cell) == lakeMap.data[cell] \/ riverMap.data[cell]
ScanIndex(cell) == cell[1] * moistureMap.depth + cell[2]
ScanIsOver == scanned = moistureMap.width * moistureMap.depth

\* C33: every cell whose lake mask or river mask is true has moisture
\* exactly 100 from the moment the scan of Generate has visited it, and so
\* in the generated map, wherever the cell lies in the scan order and
\* whatever its neighbours are.
C33_WaterCellsAreAtMaximum ==
    \A cell \in MoistureCells :
        IsWaterCell(cell) /\ ScanIndex(cell) < scanned => moistureMap.data[cell] = 100

\* the scan is over: two water cells next to each other, one scanned after
\* the other, and a water cell next to a dry one, are all at 100
C33_Witness ==
    /\ ScanIsOver
    /\ \E a, b, c \in MoistureCells :
          /\ IsWaterCell(a) /\ IsWaterCell(b) /\ ~IsWaterCell(c)
          /\ ScanIndex(a) < ScanIndex(b)
          /\ Abs(a[1] - b[1]) + Abs(a[2] - b[2]) = 1
          /\ Abs(b[1] - c[1]) + Abs(b[2] - c[2]) = 1
          /\ moistureMap.data[a] = 100
          /\ moistureMap.data[b] = 100
          /\ moistureMap.data[c] < 100

\* C34: in the generated moisture map a cell has moisture 100 only if its
\* lake mask or river mask is true: a cell that is neither lake nor river
\* ends with moisture below 100.
C34_MaximumOnlyForWater ==
    ScanIsOver =>
        \A cell \in MoistureCells : moistureMap.data[cell] = 100 => IsWaterCell(cell)

\* C35: in the generated moisture map every cell at Manhattan distance
\* d <= moistureRadius of a water cell has moisture at least
\* 100 - d * (100 / moistureRadius), whether the water cell is scanned
\* before or after it.
C35_DiffusionReachesCellsInRange ==
    ScanIsOver =>
        \A cell, water \in MoistureCells :
            LET d == Abs(cell[1] - water[1]) + Abs(cell[2] - water[2])
            IN IsWaterCell(water) /\ d <= moistureRadius =>
                   moistureMap.data[cell] >= 100 - d * (100 \div moistureRadius)

\* the cells the loops of Generate have filled, and the end of Generate
TerrainFilled == {cell \in DOMAIN terrainMap.data : cell[1] * terrainMap.depth + cell[2] < terrainStage}
TerrainDone == terrainStage = terrainMap.width * terrainMap.depth + 1

\* C36 as stated: Generate with octaves = 0 yields a height map in which
\* every cell is 0, and Normalize then leaves it unchanged.
C36_NoOctavesAllZero ==
    terrain.octaves = 0 =>
        \A cell \in TerrainFilled : terrainMap.data[cell] = Finite(0, FZero)

\* C36 amended: Generate with octaves = 0 yields a height map in which
\* every cell is 0.2, the value noiseHeight starts from, whatever the noise
\* and the persistence; Normalize then leaves the map unchanged.
C36_NoOctavesAllAtStart ==
    terrain.octaves = 0 =>
        \A cell \in TerrainFilled : terrainMap.data[cell] = Finite(0, Dec(2, 10))

\* Generate has run to its end with octaves = 0 over a noise that is not 0
C36_Witness ==
    /\ TerrainDone
    /\ terrain.octaves = 0
    /\ \A cell \in DOMAIN terrainMap.data :
          /\ terrain.perlin[cell, 0] # Finite(0, FZero)
          /\ terrainMap.data[cell] = Finite(0, Dec(2, 10))

\* C37: after any sequence of Initialize (with duplicate-free lists), Update
\* and Reset calls, the burning list holds exactly the tiles whose isBurning
\* flag is true, each once.
C37_BurningListIsTheBurningTiles ==
    /\ IsDuplicateFree(burningTiles)
    /\ \A tile \in Tiles(world) :
          isBurning[GetTileIndex(world, tile)] <=> tile \in Range(burningTiles)

\* C38: after any sequence of Initialize, Update and Reset calls no tile
\* has isBurning and hasBurned both true.
C38_NeverBurningAndBurned ==
    \A k \in DOMAIN isBurning : ~(isBurning[k] /\ hasBurned[k])

\* the tiles given to Initialize: the change set of clock value 0
GivenToInitialize == IF 0 \in DOMAIN changesOverTime THEN Range(changesOverTime[0]) ELSE {}

\* a tile ignited by the step is next to a tile that was in the burning
\* list, and burning, before the step
IgnitedBesideBurning ==
    \A tile \in Tiles(world) :
        isBurning'[GetTileIndex(world, tile)] /\ ~isBurning[GetTileIndex(world, tile)] =>
            \E source \in Range(burningTiles) :
                /\ isBurning[GetTileIndex(world, source)]
                /\ Chebyshev(source, tile) = 1

\* a tile that is burning or has burned is within Chebyshev distance
\* currentTime of a tile given to Initialize
FireWithinReach ==
    \A tile \in Tiles(world) :
        isBurning[GetTileIndex(world, tile)] \/ hasBurned[GetTileIndex(world, tile)] =>
            \E start \in GivenToInitialize : Chebyshev(start, tile) <= currentTime

====
